---- MODULE Spec2Model ----
(***************************************************************************)
(* A model of roa's request-processing core: the middleware composition   *)
(* of App (roa-core/src/app.rs), the shell HttpService::serve, and the     *)
(* building of a Router's dispatch table (src/router.rs).                  *)
(*                                                                         *)
(* Spec        one App is configured with gate/end, then serves a request  *)
(*             step by step through the composed middleware.               *)
(* SpecRouter  a Router (and a child it includes) is configured and then   *)
(*             resolved with Router::routes.                               *)
(* SpecDispatch  a Router is configured, resolved and gated into an App,   *)
(*             which then serves a request through the dispatch table.     *)
(***************************************************************************)
EXTENDS Naturals, Sequences, FiniteSets, TLC

\* Bounds of the model.
MaxLayers == 3
MaxRoutes == 2
MaxGates == 2

VARIABLES
    app,      \* App.middleware: the composed root middleware
    beh,      \* the user middlewares in registration order (what each one's body does)
    phase,    \* "config" | "running" | "done"
    ctl,      \* what the request's task executes next
    stack,    \* the layers suspended in `next().await`, innermost last
    log,      \* history of the request: what ran, in order
    resp,     \* Context.response of the request
    outcome,  \* what HttpService::serve returned
    router,   \* a Router under configuration
    child,    \* a second Router, which `router` may include
    moved,    \* whether `child` has been moved into router.include
    built,    \* what Router::routes returned for `router`
    req,      \* the request of the Context: method and raw uri path
    store,    \* the request-scoped store of the Context
    rlog,     \* history of the request inside the router: what ran, in order
    db,       \* AppModel.db of the CRUD scenario: the DB behind Arc<RwLock<..>>
    replies,  \* history of the CRUD scenario: each request with its response
    ops,      \* history of the stores and loads on the store of the Context
    heap,     \* the Arc<Mutex<..>> cells: value, holder of the guard, strong count
    tasks,    \* the requests in flight: Context, frames of the chain, trace, outcome
    hreq,     \* the headers and the peer address of a request (forward.rs)
    answer,   \* what the last call of a Forward method returned
    dbTable,  \* Database.table of the example: the Slab behind Arc<RwLock<..>>
    calls,    \* the calls of Database::delete in flight and their results
    created   \* the ids Database::create has returned, in order

appVars == <<app, beh, phase, ctl, stack, log, resp, outcome>>
routerVars == <<router, child, moved, built>>
dispVars == <<req, store, rlog>>
crudVars == <<db, replies>>
storeVars == <<ops>>
ctxVars == <<heap, tasks>>
fwdVars == <<hreq, answer>>
exVars == <<dbTable, calls, created>>
vars == <<appVars, routerVars, dispVars, crudVars, storeVars, ctxVars, fwdVars, exVars>>

----------------------------------------------------------------------------
(* Errors and results                                                      *)

NoError == [status_code |-> 0, message |-> "", expose |-> FALSE, kind |-> "None"]

\* ErrorKind of a status code: client errors are 4xx, server errors 5xx.
ErrorKind_infer(status_code) ==
    IF status_code >= 400 /\ status_code < 500 THEN "ClientError"
    ELSE IF status_code >= 500 /\ status_code < 600 THEN "ServerError"
    ELSE "None"

\* Error::new(status_code, message, expose)
Error_new(status_code, message, expose) ==
    [status_code |-> status_code, message |-> message, expose |-> expose,
     kind |-> ErrorKind_infer(status_code)]

\* Error::need_throw: only a server error is thrown to hyper.
need_throw(err) == err.kind = "ServerError"

\* The errors user middlewares throw in the model: every combination of
\* client/server and exposed/hidden.
ErrorValues ==
    { Error_new(400, "bad request", TRUE),
      Error_new(404, "hidden", FALSE),
      Error_new(500, "internal", FALSE),
      Error_new(503, "unavailable", TRUE) }

OkResult == [ok |-> TRUE, err |-> NoError]
ErrResult(e) == [ok |-> FALSE, err |-> e]
Results == {OkResult} \cup {ErrResult(e) : e \in ErrorValues}
\* "no result": the value of the result field of an event that carries none.
NoResult == [ok |-> FALSE, err |-> NoError]

----------------------------------------------------------------------------
(* Response                                                                *)

\* Response::new(): status 200, empty body.
Response_new == [status |-> 200, body |-> <<>>]

\* Body::write_str appends a segment to the body.
write_str(response, s) == [response EXCEPT !.body = Append(@, s)]

----------------------------------------------------------------------------
(* Middleware composition                                                  *)
(*                                                                         *)
(* A middleware is a tree: <<"user", i>> is the i-th registered user       *)
(* middleware, <<"empty">> the composition of no middleware, and           *)
(* <<"join", a, b>> the pair whose first member's next runs the second.    *)
(* A continuation (Next) is <<"last">>, the terminal next of               *)
(* Middleware::end, or <<"next", b, n>>: run b with next n.                *)

\* join(current, next)
join(current, next) == <<"join", current, next>>

RECURSIVE join_all(_)
\* join_all(middlewares): the right fold of join, the empty list giving the
\* pass-through middleware.
join_all(middlewares) ==
    IF middlewares = <<>> THEN <<"empty">>
    ELSE join(Head(middlewares), join_all(Tail(middlewares)))

\* An empty composition that succeeds without invoking its next.
empty_handle_sink(next) == <<"ret", OkResult>>

\* What the middleware of the empty list does with its next: it invokes it.
empty_handle(next) == <<"invoke", next>>

\* The terminal next handed to the root middleware by Middleware::end: it
\* does nothing and succeeds.
last == OkResult

\* App::new: the middleware of a new App.
App_new == join_all(<<>>)

\* A gate that composes in the wrong order: the new middleware outside.
App_gate_swapped(self_middleware, middleware) == join(middleware, self_middleware)

\* A gate that composes the new middleware twice.
App_gate_twice(self_middleware, middleware) ==
    join(join(self_middleware, middleware), middleware)

\* App::gate: self.middleware = join(self.middleware, middleware).
App_gate(self_middleware, middleware) == join(self_middleware, middleware)

\* App::end: a wrapper of gate for an endpoint fn(Context).
App_end(self_middleware, endpoint) == App_gate(self_middleware, endpoint)

----------------------------------------------------------------------------
(* User middlewares                                                        *)
(*                                                                         *)
(* k = "pass"       next().await                                           *)
(*     "catch"      calls next and turns an error into Ok(())              *)
(*     "replace"    calls next and replaces an error by the error r        *)
(*     "failAfter"  next().await?; then fails with r (lib.rs:62-67)        *)
(*     "end"        never calls next; returns r (writing the body on Ok)   *)
(* reg = "gate" | "end": how it was registered.                            *)

GateBehaviours ==
    {[k |-> "pass", r |-> OkResult, reg |-> "gate"],
     [k |-> "catch", r |-> OkResult, reg |-> "gate"],
     [k |-> "replace", r |-> ErrResult(Error_new(500, "internal", FALSE)), reg |-> "gate"],
     [k |-> "failAfter", r |-> ErrResult(Error_new(400, "bad request", TRUE)), reg |-> "gate"],
     [k |-> "end", r |-> OkResult, reg |-> "gate"]}

EndBehaviours == {[k |-> "end", r |-> r, reg |-> "end"] : r \in Results}

CallsNext(b) == b.k # "end"

\* What a middleware that called next returns, given what next returned.
AfterNext(b, r) ==
    CASE b.k = "pass" -> r
      [] b.k = "catch" -> OkResult
      [] b.k = "replace" -> IF r.ok THEN r ELSE b.r
      [] b.k = "failAfter" -> IF r.ok THEN b.r ELSE r
      [] OTHER -> r

Ev(ev, layer, res) == [ev |-> ev, layer |-> layer, res |-> res]

----------------------------------------------------------------------------
(* Paths                                                                   *)
(*                                                                         *)
(* A path is a sequence of characters; ":" starts a variable segment.      *)

RECURSIVE trim_slashes(_)
\* path.trim_matches('/')
trim_slashes(s) ==
    IF s # <<>> /\ Head(s) = "/" THEN trim_slashes(Tail(s))
    ELSE IF s # <<>> /\ s[Len(s)] = "/" THEN trim_slashes(SubSeq(s, 1, Len(s) - 1))
    ELSE s

\* standardize_path: exactly one leading slash, no trailing slash except
\* for the root.
standardize_path(raw_path) == <<"/">> \o trim_slashes(raw_path)

RECURSIVE join_trimmed(_)
join_trimmed(paths) ==
    IF paths = <<>> THEN <<>>
    ELSE LET head == trim_slashes(Head(paths))
             rest == join_trimmed(Tail(paths))
         IN IF head = <<>> THEN rest
            ELSE IF rest = <<>> THEN head
            ELSE head \o <<"/">> \o rest

\* join_path: the paths concatenated and normalized.
join_path(paths) == standardize_path(join_trimmed(paths))

RECURSIVE split_segments(_)
\* The segments of a path between its slashes.
split_segments(s) ==
    IF s = <<>> THEN <<>>
    ELSE IF Head(s) = "/" THEN split_segments(Tail(s))
    ELSE LET stop == IF \E k \in DOMAIN s : s[k] = "/"
                     THEN CHOOSE k \in DOMAIN s :
                              s[k] = "/" /\ \A m \in 1..(k - 1) : s[m] # "/"
                     ELSE Len(s) + 1
         IN <<SubSeq(s, 1, stop - 1)>> \o split_segments(SubSeq(s, stop, Len(s)))

IsVariable(segment) == segment # <<>> /\ Head(segment) = ":"

\* raw_path.parse::<Path>(): a path without variable segment is
\* Path::Static(normalized path), any other Path::Dynamic(pattern) with
\* the names of its variables.
Path_parse(raw_path) ==
    LET path == standardize_path(raw_path)
        segments == split_segments(path)
    IN IF \E k \in DOMAIN segments : IsVariable(segments[k])
       THEN [ok |-> TRUE, kind |-> "Dynamic", path |-> path,
             vars |-> {Tail(segments[k]) : k \in {m \in DOMAIN segments : IsVariable(segments[m])}}]
       ELSE [ok |-> TRUE, kind |-> "Static", path |-> path, vars |-> {}]

----------------------------------------------------------------------------
(* Router                                                                  *)

ALL_METHODS ==
    {"GET", "POST", "PUT", "PATCH", "OPTIONS", "DELETE", "HEAD", "TRACE", "CONNECT"}

\* Router::new
Router_new == [middlewares |-> <<>>, endpoints |-> <<>>]

\* Router::gate
Router_gate(self, middleware) ==
    [self EXCEPT !.middlewares = Append(@, middleware)]

\* Router::end: the same endpoint under every method of the list.
Router_end(self, methods, path, endpoint) ==
    [self EXCEPT !.endpoints =
        @ \o [k \in DOMAIN methods |->
                 [method |-> methods[k], path |-> path, endpoint |-> endpoint]]]

\* An on that leaves the router's middlewares out of the handlers.
Router_on_bare(self, prefix) ==
    [k \in DOMAIN self.endpoints |->
        [method |-> self.endpoints[k].method,
         path |-> join_path(<<prefix, self.endpoints[k].path>>),
         endpoint |-> join_all(<<self.endpoints[k].endpoint>>)]]

\* Router::on: every endpoint behind the router's middlewares, its path
\* under the prefix.
Router_on(self, prefix) ==
    [k \in DOMAIN self.endpoints |->
        [method |-> self.endpoints[k].method,
         path |-> join_path(<<prefix, self.endpoints[k].path>>),
         endpoint |-> join_all(Append(self.middlewares, self.endpoints[k].endpoint))]]

\* An include that takes the routes of the other router as they were
\* registered, without its middlewares and without the prefix.
Router_include_methods_raw(self, prefix, other, methods) ==
    LET Kept(e) == e.method \in methods
    IN [self EXCEPT !.endpoints = @ \o SelectSeq(other.endpoints, Kept)]

\* Router::include_methods
Router_include_methods(self, prefix, other, methods) ==
    LET Kept(e) == e.method \in methods
    IN [self EXCEPT !.endpoints = @ \o SelectSeq(Router_on(other, prefix), Kept)]

\* Router::include
Router_include(self, prefix, other) ==
    Router_include_methods(self, prefix, other, ALL_METHODS)

EmptyMap == [x \in {} |-> <<>>]
MapInsert(map, key, value) ==
    [x \in DOMAIN map \cup {key} |-> IF x = key THEN value ELSE map[x]]

NoRouterError == [kind |-> "None", path |-> <<>>]

\* RouteTable::new
RouteTable_new == [static_route |-> EmptyMap, dynamic_route |-> <<>>]

\* An insert that overwrites a static route already present.
RouteTable_insert_overwrite(self, raw_path, endpoint) ==
    LET parsed == Path_parse(raw_path)
    IN IF parsed.kind = "Static"
       THEN [ok |-> TRUE, err |-> NoRouterError,
             table |-> [self EXCEPT !.static_route = MapInsert(@, parsed.path, endpoint)]]
       ELSE [ok |-> TRUE, err |-> NoRouterError,
             table |-> [self EXCEPT !.dynamic_route =
                           Append(@, [regex_path |-> parsed, endpoint |-> endpoint])]]

\* RouteTable::insert
RouteTable_insert(self, raw_path, endpoint) ==
    LET parsed == Path_parse(raw_path)
    IN IF ~parsed.ok
       THEN [ok |-> FALSE, err |-> [kind |-> "InvalidPath", path |-> parsed.path],
             table |-> self]
       ELSE IF parsed.kind = "Static"
       THEN LET table == [self EXCEPT !.static_route = MapInsert(@, parsed.path, endpoint)]
            IN IF parsed.path \in DOMAIN self.static_route
               THEN [ok |-> FALSE, err |-> [kind |-> "Conflict::Path", path |-> parsed.path],
                     table |-> table]
               ELSE [ok |-> TRUE, err |-> NoRouterError, table |-> table]
       ELSE [ok |-> TRUE, err |-> NoRouterError,
             table |-> [self EXCEPT !.dynamic_route =
                           Append(@, [regex_path |-> parsed, endpoint |-> endpoint])]]

\* A default without tables: the table of a method is made by its first
\* route.
RouteEndpoint_default_lazy == EmptyMap

\* RouteEndpoint::default: a table for each of the nine methods.
RouteEndpoint_default == [m \in ALL_METHODS |-> RouteTable_new]

\* An insert that keeps the routes of every method in one table.
RouteEndpoint_insert_one_table(self, method, raw_path, endpoint) ==
    LET res == RouteTable_insert(self["GET"], raw_path, endpoint)
    IN [ok |-> res.ok, err |-> res.err,
        map |-> [m \in DOMAIN self |-> res.table]]

\* RouteEndpoint::insert: into the table of the method, made first when the
\* method has none.
RouteEndpoint_insert(self, method, raw_path, endpoint) ==
    LET map == IF method \in DOMAIN self THEN self
               ELSE MapInsert(self, method, RouteTable_new)
        res == RouteTable_insert(map[method], raw_path, endpoint)
    IN [ok |-> res.ok, err |-> res.err, map |-> [map EXCEPT ![method] = res.table]]

RECURSIVE routes_insert_all(_, _)
\* The loop of Router::routes: it stops at the first insert that fails.
routes_insert_all(route_endpoint, endpoints) ==
    IF endpoints = <<>>
    THEN [ok |-> TRUE, value |-> <<route_endpoint>>, err |-> NoRouterError]
    ELSE LET e == Head(endpoints)
             res == RouteEndpoint_insert(route_endpoint, e.method, e.path, e.endpoint)
         IN IF ~res.ok THEN [ok |-> FALSE, value |-> <<>>, err |-> res.err]
            ELSE routes_insert_all(res.map, Tail(endpoints))

\* Router::routes
Router_routes(self, prefix) ==
    routes_insert_all(RouteEndpoint_default, Router_on(self, prefix))

\* No request yet.
NoRequest == [method |-> "", path |-> <<>>]

\* Router::routes has not been called.
NotBuilt == [called |-> FALSE, prefix |-> <<>>, ok |-> FALSE, value |-> <<>>,
             err |-> NoRouterError]

-----------------------------------------------------------------------------
(* The store of the CRUD scenario: DB over a Slab and a MultiMap            *)

\* The user values of the scenario: name, age, favorite_fruit.
Users ==
    { [name |-> "Hexilee", age |-> 20, favorite_fruit |-> "Apple"],
      [name |-> "Bob", age |-> 120, favorite_fruit |-> "Lemon"] }

\* Slab::new(): no entry, and the next key to hand out is 0.
Slab_new == [entries |-> <<>>, next |-> 0]

\* An entry of a slab is occupied by a value, or vacant with the key that
\* is handed out after it. Keys start at 0: key k is entries[k + 1].
NoUser == [name |-> "", age |-> 0, favorite_fruit |-> ""]
Occupied(value) == [occupied |-> TRUE, value |-> value, next |-> 0]
Vacant(next) == [occupied |-> FALSE, value |-> NoUser, next |-> next]

\* Slab::contains(key)
Slab_contains(self, key) ==
    /\ key < Len(self.entries)
    /\ self.entries[key + 1].occupied

\* Slab::insert(value): the value goes to the key `next`, which is the
\* last key removed or, when none is vacant, the length of the slab.
Slab_insert(self, value) ==
    LET key == self.next
    IN IF key = Len(self.entries)
       THEN [key |-> key,
             slab |-> [entries |-> Append(self.entries, Occupied(value)),
                       next |-> key + 1]]
       ELSE [key |-> key,
             slab |-> [entries |-> [self.entries EXCEPT ![key + 1] = Occupied(value)],
                       next |-> self.entries[key + 1].next]]

\* Slab::remove(key) of a key the slab contains.
Slab_remove(self, key) ==
    [value |-> self.entries[key + 1].value,
     slab |-> [entries |-> [self.entries EXCEPT ![key + 1] = Vacant(self.next)],
               next |-> key]]

\* DB::new()
DB_new == [main_table |-> Slab_new, name_index |-> EmptyMap]

\* MultiMap::insert(name, id): the id is appended to the ids of the name.
MultiMap_insert(self, name, id) ==
    [n \in DOMAIN self \cup {name} |->
        IF n = name
        THEN (IF name \in DOMAIN self THEN Append(self[name], id) ELSE <<id>>)
        ELSE self[n]]

\* The sequence without its element at index i (Vec::remove).
RemoveAt(seq, i) ==
    [k \in 1..(Len(seq) - 1) |-> IF k < i THEN seq[k] ELSE seq[k + 1]]

\* DB::delete_index(name, id): the loop walks a copy of the ids of the
\* name and removes from the ids the index at which the copy has the id.
\* An index past the end of the ids is a panic of Vec::remove.
RECURSIVE delete_index_loop(_, _, _, _)
delete_index_loop(uids, id_set, id, index) ==
    IF index > Len(uids) THEN [panic |-> FALSE, ids |-> id_set]
    ELSE IF uids[index] # id THEN delete_index_loop(uids, id_set, id, index + 1)
    ELSE IF index > Len(id_set) THEN [panic |-> TRUE, ids |-> id_set]
    ELSE delete_index_loop(uids, RemoveAt(id_set, index), id, index + 1)

DB_delete_index(self, name, id) ==
    IF name \notin DOMAIN self.name_index THEN [panic |-> FALSE, db |-> self]
    ELSE LET done == delete_index_loop(self.name_index[name], self.name_index[name], id, 1)
         IN [panic |-> done.panic,
             db |-> [self EXCEPT !.name_index[name] = done.ids]]

\* DB::add(user)
DB_add(self, user) ==
    LET inserted == Slab_insert(self.main_table, user)
    IN [id |-> inserted.key,
        db |-> [main_table |-> inserted.slab,
                name_index |-> MultiMap_insert(self.name_index, user.name, inserted.key)]]

\* DB::get(id)
DB_get(self, id) ==
    IF Slab_contains(self.main_table, id)
    THEN [some |-> TRUE, user |-> self.main_table.entries[id + 1].value]
    ELSE [some |-> FALSE, user |-> NoUser]

\* An update that stores the new value and hands the new value back.
DB_update_no_swap(self, id, new_user) ==
    IF ~Slab_contains(self.main_table, id)
    THEN [swapped |-> FALSE, panic |-> FALSE, user |-> new_user, db |-> self]
    ELSE LET old == self.main_table.entries[id + 1].value
             stored == [self EXCEPT !.main_table.entries[id + 1] = Occupied(new_user)]
             unindexed == DB_delete_index(stored, old.name, id)
         IN [swapped |-> TRUE, panic |-> unindexed.panic, user |-> new_user,
             db |-> [unindexed.db EXCEPT !.name_index =
                         MultiMap_insert(@, new_user.name, id)]]

\* DB::update(id, &mut new_user): std::mem::swap puts the new value in
\* the table and the previous value in new_user; the index entry of the
\* previous name goes and one for the new name comes.
DB_update(self, id, new_user) ==
    IF ~Slab_contains(self.main_table, id)
    THEN [swapped |-> FALSE, panic |-> FALSE, user |-> new_user, db |-> self]
    ELSE LET old == self.main_table.entries[id + 1].value
             stored == [self EXCEPT !.main_table.entries[id + 1] = Occupied(new_user)]
             unindexed == DB_delete_index(stored, old.name, id)
         IN [swapped |-> TRUE, panic |-> unindexed.panic, user |-> old,
             db |-> [unindexed.db EXCEPT !.name_index =
                         MultiMap_insert(@, new_user.name, id)]]

\* A delete that hands the user back and leaves it in the table.
DB_delete_keeps(self, id) ==
    IF ~Slab_contains(self.main_table, id)
    THEN [some |-> FALSE, panic |-> FALSE, user |-> NoUser, db |-> self]
    ELSE [some |-> TRUE, panic |-> FALSE,
          user |-> self.main_table.entries[id + 1].value, db |-> self]

\* DB::delete(id)
DB_delete(self, id) ==
    IF ~Slab_contains(self.main_table, id)
    THEN [some |-> FALSE, panic |-> FALSE, user |-> NoUser, db |-> self]
    ELSE LET removed == Slab_remove(self.main_table, id)
             unindexed == DB_delete_index([self EXCEPT !.main_table = removed.slab],
                                          removed.value.name, id)
         IN [some |-> TRUE, panic |-> unindexed.panic, user |-> removed.value,
             db |-> unindexed.db]

-----------------------------------------------------------------------------
(* The cells of the Context: Arc<Mutex<..>>                                 *)

\* How many requests are in flight at most.
MaxInFlight == 2
RequestIds == 1..MaxInFlight

\* A cell: the value behind the Mutex, the frame that holds the guard
\* (<<>> when the Mutex is free) and the number of Arc handles to it.
Cell(value) == [value |-> value, holder |-> <<>>, strong |-> 1]

\* The cell of the data the model shares between the states it hands out
\* (database: self.database.clone() in the docs of Model).
SharedCell == 1

\* Arc::new(Mutex::new(value))
Arc_new(cells, value) == Append(cells, Cell(value))

\* Arc::clone: one more handle to the same cell.
Arc_clone(cells, id) == [cells EXCEPT ![id].strong = @ + 1]

\* Dropping a handle to the cell.
Arc_drop(cells, id) == [cells EXCEPT ![id].strong = @ - 1]

\* Model::new_state: the state of one request; it holds a handle to what
\* the model shares (the handles that states hold are not counted).
Model_new_state == [own |-> <<>>, shared |-> SharedCell]

ContextCells == {"request", "response", "state", "store"}

\* A Context that takes the response cell of the first Context made.
Context_new_reuse(cells, request, state) ==
    LET first == Len(cells) + 1
        made == Arc_new(Arc_new(Arc_new(Arc_new(cells,
                    request), Response_new), state), EmptyMap)
    IN [context |-> [request |-> first,
                     response |-> IF Len(cells) > 1 THEN 3 ELSE first + 1,
                     state |-> first + 2, store |-> first + 3],
        heap |-> made]

\* Context::new(request, state, ..): a new cell for the request, for
\* Response::new() and for the state. The cell of the store is not in the
\* context.rs at hand; Context::store and Context::load need one.
Context_new(cells, request, state) ==
    LET first == Len(cells) + 1
        made == Arc_new(Arc_new(Arc_new(Arc_new(cells,
                    request), Response_new), state), EmptyMap)
    IN [context |-> [request |-> first, response |-> first + 1,
                     state |-> first + 2, store |-> first + 3],
        heap |-> made]

\* A clone that copies every cell.
Context_clone_deep(cells, self) ==
    LET first == Len(cells) + 1
    IN [context |-> [request |-> first, response |-> first + 1,
                     state |-> first + 2, store |-> first + 3],
        heap |-> Arc_new(Arc_new(Arc_new(Arc_new(cells,
                    cells[self.request].value), cells[self.response].value),
                    cells[self.state].value), cells[self.store].value)]

\* Clone for Context: self.request.clone(), self.response.clone(),
\* self.state.clone(): Arc handles to the same cells.
Context_clone(cells, self) ==
    [context |-> self,
     heap |-> Arc_clone(Arc_clone(Arc_clone(Arc_clone(cells,
                  self.request), self.response), self.state), self.store)]

\* Dropping a Context drops its handles.
Context_drop(cells, self) ==
    Arc_drop(Arc_drop(Arc_drop(Arc_drop(cells,
        self.request), self.response), self.state), self.store)

\* A Mutex that the frames of the request that holds it may lock again.
Mutex_lock_reentrant(cell, who) ==
    [acquired |-> cell.holder = <<>> \/ cell.holder[1] = who[1],
     cell |-> [cell EXCEPT !.holder = who]]

\* futures::lock::Mutex::lock().await: it resolves when no guard is out,
\* whoever holds it; until then the caller waits.
Mutex_lock(cell, who) ==
    [acquired |-> cell.holder = <<>>,
     cell |-> [cell EXCEPT !.holder = who]]

\* Dropping the guard.
Mutex_unlock(cell) == [cell EXCEPT !.holder = <<>>]

\* No request: the task has not started.
NoContext == [request |-> 0, response |-> 0, state |-> 0, store |-> 0]
NoOutcome == [ret |-> "none", err |-> NoError, response |-> <<>>]
IdleTask ==
    [status |-> "idle", context |-> NoContext, frames |-> <<>>, endpoint |-> <<>>,
     result |-> OkResult, trace |-> <<>>, outcome |-> NoOutcome, new_state_calls |-> 0]

-----------------------------------------------------------------------------
(* Forward: the X-Forwarded-* headers (forward.rs)                          *)

\* How many tokens a value of x-forwarded-for has at most.
MaxHeaderLen == 3

\* A header value is a sequence of tokens: addresses, a word that is no
\* address, the comma and the space.
IpTokens == {"192.168.0.1", "8.8.8.8"}
Tokens == IpTokens \cup {"unknown", ",", " "}
ForwardedForValues == UNION {[1..k -> Tokens] : k \in 0..MaxHeaderLen}
HostValues == {<<"github.com">>, <<"google.com">>}

\* A header of a request: absent, bytes that are no visible ASCII (to_str
\* fails), or text.
Absent == [set |-> FALSE, valid |-> FALSE, text |-> <<>>]
Invalid == [set |-> TRUE, valid |-> FALSE, text |-> <<>>]
Text(value) == [set |-> TRUE, valid |-> TRUE, text |-> value]

\* No request has arrived.
NoHeaders == [arrived |-> FALSE, headers |-> EmptyMap, remote_addr |-> ""]
NoAnswer == [call |-> "", ok |-> TRUE, text |-> <<>>, ips |-> <<>>, err |-> NoError]

\* self.req().await.get(name): None when the header is not set, Some(Err)
\* when its value is no string, Some(Ok(value)) otherwise.
Request_get(request, name) ==
    IF name \in DOMAIN request.headers THEN request.headers[name] ELSE Absent

\* The message of host: "header `host` and `x-forwarded-host` are both
\* not set".
HostMessage == "header host and x-forwarded-host are both not set"

\* A host that looks at the host header first.
host_prefers_host(request) ==
    LET forwarded == Request_get(request, "x-forwarded-host")
        named == Request_get(request, "host")
    IN IF named.set /\ named.valid
       THEN [ok |-> TRUE, text |-> named.text, err |-> NoError]
       ELSE IF forwarded.set /\ forwarded.valid
       THEN [ok |-> TRUE, text |-> forwarded.text, err |-> NoError]
       ELSE [ok |-> FALSE, text |-> <<>>,
             err |-> Error_new(400, HostMessage, TRUE)]

\* Forward::host
host(request) ==
    LET forwarded == Request_get(request, "x-forwarded-host")
        named == Request_get(request, "host")
    IN IF forwarded.set /\ forwarded.valid
       THEN [ok |-> TRUE, text |-> forwarded.text, err |-> NoError]
       ELSE IF named.set /\ named.valid
       THEN [ok |-> TRUE, text |-> named.text, err |-> NoError]
       ELSE [ok |-> FALSE, text |-> <<>>,
             err |-> Error_new(400, HostMessage, TRUE)]

\* value.split(','): the pieces between the commas; a value without a
\* comma is one piece, the empty value one empty piece.
RECURSIVE split(_, _)
split(value, piece) ==
    IF value = <<>> THEN <<piece>>
    ELSE IF Head(value) = "," THEN <<piece>> \o split(Tail(value), <<>>)
    ELSE split(Tail(value), Append(piece, Head(value)))

\* str::trim: the piece without the spaces at its two ends.
RECURSIVE trim_start(_)
trim_start(piece) ==
    IF piece # <<>> /\ Head(piece) = " " THEN trim_start(Tail(piece)) ELSE piece
RECURSIVE trim_end(_)
trim_end(piece) ==
    IF piece # <<>> /\ piece[Len(piece)] = " "
    THEN trim_end(SubSeq(piece, 1, Len(piece) - 1)) ELSE piece
trim(piece) == trim_end(trim_start(piece))

\* str::parse::<IpAddr>: the text is one address and nothing else.
parse_ip(text) ==
    IF Len(text) = 1 /\ text[1] \in IpTokens
    THEN [ok |-> TRUE, addr |-> text[1]]
    ELSE [ok |-> FALSE, addr |-> ""]

\* The loop of forwarded_ips over the pieces.
RECURSIVE push_parsed(_, _)
push_parsed(pieces, addrs) ==
    IF pieces = <<>> THEN addrs
    ELSE LET parsed == parse_ip(trim(Head(pieces)))
         IN push_parsed(Tail(pieces), IF parsed.ok THEN Append(addrs, parsed.addr) ELSE addrs)

\* A loop that gives up at the first piece that is no address.
RECURSIVE push_until_bad(_, _)
push_until_bad(pieces, addrs) ==
    IF pieces = <<>> THEN addrs
    ELSE LET parsed == parse_ip(trim(Head(pieces)))
         IN IF parsed.ok THEN push_until_bad(Tail(pieces), Append(addrs, parsed.addr))
            ELSE addrs

\* A forwarded_ips that gives up at the first piece that is no address.
forwarded_ips_until_bad(request) ==
    LET header == Request_get(request, "x-forwarded-for")
    IN IF header.set /\ header.valid
       THEN push_until_bad(split(header.text, <<>>), <<>>)
       ELSE <<>>

\* Forward::forwarded_ips
forwarded_ips(request) ==
    LET header == Request_get(request, "x-forwarded-for")
    IN IF header.set /\ header.valid
       THEN push_parsed(split(header.text, <<>>), <<>>)
       ELSE <<>>

\* Forward::client_ip
client_ip(request) ==
    LET addrs == forwarded_ips(request)
    IN IF addrs = <<>> THEN request.remote_addr ELSE addrs[1]

-----------------------------------------------------------------------------
(* The Database of the example (examples/restful-api.rs)                    *)

\* A call of Database::delete: where it is, the id, and what it returned.
\* pc is "idle", "checked" (contains held under the read guard, which is
\* dropped), "done" or "panicked".
NoCall == [pc |-> "idle", id |-> 0, status |-> 0, user |-> NoUser]

\* Database::create: self.table.write().await.insert(user)
Database_create(self, user) == Slab_insert(self, user)

\* A delete that checks and removes under one write guard.
Database_delete_remove_atomic(self, id) ==
    IF Slab_contains(self, id)
    THEN [panic |-> FALSE, status |-> 200, user |-> Slab_remove(self, id).value,
          slab |-> Slab_remove(self, id).slab]
    ELSE [panic |-> FALSE, status |-> 404, user |-> NoUser, slab |-> self]

\* Database::delete, second statement: self.table.write().await.remove(id).
\* Slab::remove panics for a key the slab does not contain.
Database_delete_remove(self, id) ==
    IF Slab_contains(self, id)
    THEN [panic |-> FALSE, status |-> 200, user |-> Slab_remove(self, id).value,
          slab |-> Slab_remove(self, id).slab]
    ELSE [panic |-> TRUE, status |-> 0, user |-> NoUser, slab |-> self]

\* Database::delete, first statement: contains(id) under the read guard.
Database_delete_check(self, id) == Slab_contains(self, id)

----------------------------------------------------------------------------
(* Configuration of the App                                                *)

Init ==
    /\ app = App_new
    /\ beh = <<>>
    /\ phase = "config"
    /\ ctl = <<"idle">>
    /\ stack = <<>>
    /\ log = <<>>
    /\ resp = Response_new
    /\ outcome = [ret |-> "none", err |-> NoError, response |-> <<>>]
    /\ router = Router_new
    /\ child = Router_new
    /\ moved = FALSE
    /\ built = NotBuilt
    /\ req = NoRequest
    /\ store = EmptyMap
    /\ rlog = <<>>
    /\ db = DB_new
    /\ replies = <<>>
    /\ ops = <<>>
    /\ heap = <<Cell(<<>>)>>
    /\ tasks = [r \in RequestIds |-> IdleTask]
    /\ hreq = NoHeaders
    /\ answer = NoAnswer
    /\ dbTable = Slab_new
    /\ calls = [r \in RequestIds |-> NoCall]
    /\ created = <<>>

\* app.gate(middleware)
Gate(b) ==
    /\ phase = "config"
    /\ Len(beh) < MaxLayers
    /\ beh' = Append(beh, b)
    /\ app' = App_gate(app, <<"user", Len(beh) + 1>>)
    /\ UNCHANGED <<phase, ctl, stack, log, resp, outcome, routerVars, dispVars, crudVars, storeVars, ctxVars, fwdVars, exVars>>

\* app.end(endpoint)
End(b) ==
    /\ phase = "config"
    /\ Len(beh) < MaxLayers
    /\ beh' = Append(beh, b)
    /\ app' = App_end(app, <<"user", Len(beh) + 1>>)
    /\ UNCHANGED <<phase, ctl, stack, log, resp, outcome, routerVars, dispVars, crudVars, storeVars, ctxVars, fwdVars, exVars>>

----------------------------------------------------------------------------
(* One request                                                             *)

\* HttpService::serve, up to the call of the root middleware:
\* Context::new, then middleware.end(context.clone()).
ServeBegin ==
    /\ phase = "config"
    /\ phase' = "running"
    /\ resp' = Response_new
    /\ ctl' = <<"run", app, <<"last">>>>
    /\ UNCHANGED <<app, beh, stack, log, outcome, routerVars, dispVars, crudVars, storeVars, ctxVars, fwdVars, exVars>>

\* join(a, b).handle(ctx, next) = a.handle(ctx, || b.handle(ctx, next))
StepJoin ==
    /\ phase = "running"
    /\ ctl[1] = "run"
    /\ ctl[2][1] = "join"
    /\ ctl' = <<"run", ctl[2][2], <<"next", ctl[2][3], ctl[3]>>>>
    /\ UNCHANGED <<app, beh, phase, stack, log, resp, outcome, routerVars, dispVars, crudVars, storeVars, ctxVars, fwdVars, exVars>>

\* join_all([]).handle(ctx, next)
StepEmpty ==
    /\ phase = "running"
    /\ ctl[1] = "run"
    /\ ctl[2][1] = "empty"
    /\ ctl' = empty_handle(ctl[3])
    /\ log' = IF ctl'[1] = "invoke" THEN Append(log, Ev("next", 0, NoResult)) ELSE log
    /\ UNCHANGED <<app, beh, phase, stack, resp, outcome, routerVars, dispVars, crudVars, storeVars, ctxVars, fwdVars, exVars>>

\* next() on the continuation built by join: run the second member.
StepNext ==
    /\ phase = "running"
    /\ ctl[1] = "invoke"
    /\ ctl[2][1] = "next"
    /\ ctl' = <<"run", ctl[2][2], ctl[2][3]>>
    /\ UNCHANGED <<app, beh, phase, stack, log, resp, outcome, routerVars, dispVars, crudVars, storeVars, ctxVars, fwdVars, exVars>>

\* next() on the terminal continuation.
StepLast ==
    /\ phase = "running"
    /\ ctl[1] = "invoke"
    /\ ctl[2][1] = "last"
    /\ ctl' = <<"ret", last>>
    /\ log' = Append(log, Ev("last", 0, last))
    /\ UNCHANGED <<app, beh, phase, stack, resp, outcome, routerVars, dispVars, crudVars, storeVars, ctxVars, fwdVars, exVars>>

\* A user middleware starts: its code before next runs; it then either
\* calls next and suspends, or returns.
StepLayer ==
    /\ phase = "running"
    /\ ctl[1] = "run"
    /\ ctl[2][1] = "user"
    /\ LET i == ctl[2][2]
           b == beh[i]
       IN IF CallsNext(b)
          THEN /\ log' = log \o <<Ev("pre", i, NoResult), Ev("next", i, NoResult)>>
               /\ stack' = Append(stack, i)
               /\ ctl' = <<"invoke", ctl[3]>>
               /\ resp' = resp
          ELSE /\ log' = log \o <<Ev("pre", i, NoResult), Ev("ret", i, b.r)>>
               /\ stack' = stack
               /\ ctl' = <<"ret", b.r>>
               /\ resp' = IF b.r.ok THEN write_str(resp, "Hello, World") ELSE resp
    /\ UNCHANGED <<app, beh, phase, outcome, routerVars, dispVars, crudVars, storeVars, ctxVars, fwdVars, exVars>>

\* next().await returns to the innermost suspended middleware: its code
\* after next runs and it returns.
StepResume ==
    /\ phase = "running"
    /\ ctl[1] = "ret"
    /\ stack # <<>>
    /\ LET i == stack[Len(stack)]
           r == AfterNext(beh[i], ctl[2])
       IN /\ log' = log \o <<Ev("post", i, ctl[2]), Ev("ret", i, r)>>
          /\ ctl' = <<"ret", r>>
    /\ stack' = SubSeq(stack, 1, Len(stack) - 1)
    /\ UNCHANGED <<app, beh, phase, resp, outcome, routerVars, dispVars, crudVars, storeVars, ctxVars, fwdVars, exVars>>

\* A shell that ignores the error of the root middleware.
serve_finish_swallow(result, response) ==
    [resp |-> Response_new,
     outcome |-> [ret |-> "Ok", err |-> NoError, response |-> <<response>>]]

\* A shell that writes the message of every error, exposed or not.
serve_finish_expose_all(result, response) ==
    IF ~result.ok
    THEN LET err == result.err
             r2 == write_str([response EXCEPT !.status = err.status_code], err.message)
         IN IF need_throw(err)
            THEN [resp |-> r2,
                  outcome |-> [ret |-> "Err", err |-> err, response |-> <<>>]]
            ELSE [resp |-> Response_new,
                  outcome |-> [ret |-> "Ok", err |-> NoError, response |-> <<r2>>]]
    ELSE [resp |-> Response_new,
          outcome |-> [ret |-> "Ok", err |-> NoError, response |-> <<response>>]]

\* A shell that throws every error to hyper.
serve_finish_throw_all(result, response) ==
    IF ~result.ok
    THEN LET err == result.err
             r1 == [response EXCEPT !.status = err.status_code]
             r2 == IF err.expose THEN write_str(r1, err.message) ELSE r1
         IN [resp |-> r2,
             outcome |-> [ret |-> "Err", err |-> err, response |-> <<>>]]
    ELSE [resp |-> Response_new,
          outcome |-> [ret |-> "Ok", err |-> NoError, response |-> <<response>>]]

\* A shell that never throws: every error becomes a response.
serve_finish_throw_none(result, response) ==
    IF ~result.ok
    THEN LET err == result.err
             r1 == [response EXCEPT !.status = err.status_code]
             r2 == IF err.expose THEN write_str(r1, err.message) ELSE r1
         IN [resp |-> Response_new,
             outcome |-> [ret |-> "Ok", err |-> NoError, response |-> <<r2>>]]
    ELSE [resp |-> Response_new,
          outcome |-> [ret |-> "Ok", err |-> NoError, response |-> <<response>>]]

\* What HttpService::serve does with the result of the root middleware:
\* the response of the Context afterwards and what serve returns.
serve_finish(result, response) ==
    IF ~result.ok
    THEN LET err == result.err
             r1 == [response EXCEPT !.status = err.status_code]
             r2 == IF err.expose THEN write_str(r1, err.message) ELSE r1
         IN IF need_throw(err)
            THEN [resp |-> r2,
                  outcome |-> [ret |-> "Err", err |-> err, response |-> <<>>]]
            ELSE [resp |-> Response_new,
                  outcome |-> [ret |-> "Ok", err |-> NoError, response |-> <<r2>>]]
    ELSE [resp |-> Response_new,
          outcome |-> [ret |-> "Ok", err |-> NoError, response |-> <<response>>]]

\* The root middleware returned to serve.
ServeEnd ==
    /\ phase = "running"
    /\ ctl[1] = "ret"
    /\ stack = <<>>
    /\ LET fin == serve_finish(ctl[2], resp)
       IN /\ resp' = fin.resp
          /\ outcome' = fin.outcome
    /\ log' = Append(log, Ev("serve", 0, ctl[2]))
    /\ phase' = "done"
    /\ ctl' = <<"idle">>
    /\ UNCHANGED <<app, beh, stack, routerVars, dispVars, crudVars, storeVars, ctxVars, fwdVars, exVars>>

Next ==
    \/ \E b \in GateBehaviours : Gate(b)
    \/ \E b \in EndBehaviours : End(b)
    \/ ServeBegin
    \/ StepJoin
    \/ StepEmpty
    \/ StepNext
    \/ StepLast
    \/ StepLayer
    \/ StepResume
    \/ ServeEnd

Spec == Init /\ [][Next]_vars

----------------------------------------------------------------------------
(* Reading the history of the request                                      *)

Idx(ev, i) == {k \in DOMAIN log : log[k].ev = ev /\ log[k].layer = i}
Count(ev, i) == Cardinality(Idx(ev, i))
\* The result carried by the first such event, NoResult when there is none.
ResOf(ev, i) ==
    IF Idx(ev, i) = {} THEN NoResult
    ELSE log[CHOOSE k \in Idx(ev, i) : \A m \in Idx(ev, i) : k <= m].res

Layers == 1..Len(beh)
Ran(i) == Count("pre", i) > 0
Resumed(i) == Count("post", i) > 0
Returned(i) == Count("ret", i) > 0
\* What layer i received from next, and what it returned.
GotOf(i) == ResOf("post", i)
RetOf(i) == ResOf("ret", i)
\* The result of the root middleware, as HttpService::serve received it.
Served == Count("serve", 0) > 0
ServeResult == ResOf("serve", 0)
\* The response of the request once serve is over: the one it returned, or,
\* when it threw, the one left in the Context.
FinalResponse == IF outcome.response # <<>> THEN outcome.response[1] ELSE resp

InBody(response, s) == \E k \in DOMAIN response.body : response.body[k] = s

IsPrefix(s, t) == Len(s) <= Len(t) /\ SubSeq(t, 1, Len(s)) = s

\* The code before and after next, in the order it ran.
IsCascadeEvent(e) == e.ev \in {"pre", "post"}
Cascade ==
    LET evs == SelectSeq(log, IsCascadeEvent)
    IN [k \in DOMAIN evs |-> <<evs[k].ev, evs[k].layer>>]

\* Down in registration order, up in reverse order.
Onion(n) ==
    [k \in 1..(2 * n) |-> IF k <= n THEN <<"pre", k>> ELSE <<"post", 2 * n + 1 - k>>]

AllCallNext == \A i \in Layers : CallsNext(beh[i])

----------------------------------------------------------------------------
(* Claims about composition                                                *)

\* C1: middlewares registered with gate in the order a, b, c, each calling
\* next once: the code before next runs in the order a, b, c and the code
\* after next in the order c, b, a, and in no other order (at every moment
\* of the request what has run is a prefix of that sequence, and at the end
\* all of it).
C1_Cascading ==
    (phase # "config" /\ AllCallNext) =>
        /\ IsPrefix(Cascade, Onion(Len(beh)))
        /\ (phase = "done" => Cascade = Onion(Len(beh)))

C1_Witness ==
    /\ phase = "done"
    /\ Len(beh) = 3
    /\ AllCallNext
    /\ Cascade = <<<<"pre", 1>>, <<"pre", 2>>, <<"pre", 3>>,
                   <<"post", 3>>, <<"post", 2>>, <<"post", 1>>>>

\* C2: the middleware of the empty list (the initial middleware of
\* App::new) invokes its next exactly once, before anything else of the
\* request and without touching the Context, and the result of the chain
\* is what that next returned: the result of the first registered layer,
\* or of the terminal next when there is none.
C2_EmptyPassThrough ==
    /\ Count("next", 0) <= 1
    /\ (log # <<>> => log[1] = Ev("next", 0, NoResult))
    /\ (Len(log) = 1 => resp = Response_new /\ stack = <<>>)
    /\ (phase = "done" =>
            /\ Count("next", 0) = 1
            /\ ServeResult = IF Len(beh) = 0 THEN ResOf("last", 0) ELSE RetOf(1))

C2_Witness ==
    /\ phase = "done"
    /\ Len(beh) = 1
    /\ Count("next", 0) = 1
    /\ ~ServeResult.ok
    /\ ServeResult = beh[1].r

\* C3: a layer that returns without calling its next (every endpoint
\* registered with end among them) keeps every layer downstream of it from
\* running; a layer that calls next receives from it exactly what the
\* layer directly downstream returned (the terminal next's Ok for the last
\* layer).
C3_NextOrNothing ==
    /\ \A i \in Layers :
           (Ran(i) /\ ~CallsNext(beh[i])) =>
               /\ Count("next", i) = 0
               /\ \A j \in Layers : j > i => ~Ran(j)
    /\ \A i \in Layers :
           Resumed(i) =>
               GotOf(i) = IF i < Len(beh) THEN RetOf(i + 1) ELSE ResOf("last", 0)

C3_Witness ==
    /\ phase = "done"
    /\ Len(beh) = 3
    /\ beh[2].reg = "end"
    /\ Ran(1) /\ Ran(2) /\ ~Ran(3)
    /\ Resumed(1)
    /\ GotOf(1) = beh[2].r

\* Layer k received an error from next and returned success.
Converts(k) == Resumed(k) /\ ~GotOf(k).ok /\ RetOf(k).ok
\* Layer m returned exactly what it received from next.
Unchanged(m) == Resumed(m) /\ RetOf(m) = GotOf(m)

\* Once a layer has returned an error, no layer downstream of it starts.
NoDownstreamAfterError ==
    \A p, q \in DOMAIN log :
        (p < q /\ log[p].ev = "ret" /\ ~log[p].res.ok /\ log[q].ev = "pre")
            => log[q].layer <= log[p].layer

\* Each layer that called next resumes with what the layer directly
\* downstream returned, and the layers resume in reverse registration order.
DeliveredUpstream ==
    /\ \A i \in Layers :
           (Resumed(i) /\ i < Len(beh)) => GotOf(i) = RetOf(i + 1)
    /\ \A p, q \in DOMAIN log :
           (p < q /\ log[p].ev = "post" /\ log[q].ev = "post")
               => log[q].layer < log[p].layer

\* C4 as stated: an error short-circuits downstream, travels upstream in
\* reverse registration order, and a layer that converts it to success
\* makes every layer above it and the shell observe success.
C4_Original ==
    /\ NoDownstreamAfterError
    /\ DeliveredUpstream
    /\ \A k \in Layers :
           Converts(k) =>
               /\ \A j \in Layers : (j < k /\ Resumed(j)) => GotOf(j).ok
               /\ (Served => ServeResult.ok)

\* C4 amended: as C4, but a layer that converts the error to success makes
\* the layers above it (and the shell) observe success only as far as every
\* layer in between returns what it received: a layer in between may fail
\* on its own after next succeeded.
C4_ErrorPropagation ==
    /\ NoDownstreamAfterError
    /\ DeliveredUpstream
    /\ \A k \in Layers :
           Converts(k) =>
               /\ \A j \in Layers :
                      (j < k /\ Resumed(j) /\ \A m \in (j + 1)..(k - 1) : Unchanged(m))
                          => GotOf(j).ok
               /\ (Served /\ \A m \in 1..(k - 1) : Unchanged(m)) => ServeResult.ok

C4_Witness ==
    /\ phase = "done"
    /\ Len(beh) = 3
    /\ ~RetOf(3).ok
    /\ Converts(2)
    /\ Unchanged(1)
    /\ GotOf(1).ok
    /\ ServeResult.ok

\* The innermost layer that ran, 0 when none did.
Innermost == IF \E i \in Layers : Ran(i)
             THEN CHOOSE i \in Layers : Ran(i) /\ \A j \in Layers : Ran(j) => j <= i
             ELSE 0
\* Every layer that ran and called next returns the result of its next
\* unchanged.
PassThroughChain ==
    \A i \in Layers : (Ran(i) /\ CallsNext(beh[i])) => beh[i].k = "pass"
\* What the innermost layer that ran returned (the terminal next's result
\* when no layer is registered).
InnermostOutcome ==
    IF Innermost = 0 THEN ResOf("last", 0) ELSE RetOf(Innermost)

\* C5: when every layer returns the result of its next unchanged, the
\* shell receives exactly the outcome of the innermost layer that ran,
\* success or error, and acts on that one: on success it returns the
\* response with its status untouched, on an error it sets that error's
\* status.
C5_EngineKeepsErrors ==
    (phase = "done" /\ PassThroughChain) =>
        /\ ServeResult = InnermostOutcome
        /\ (InnermostOutcome.ok => outcome.ret = "Ok" /\ FinalResponse.status = 200)
        /\ (~InnermostOutcome.ok =>
                FinalResponse.status = InnermostOutcome.err.status_code)

C5_Witness ==
    /\ phase = "done"
    /\ Len(beh) = 3
    /\ beh[1].k = "pass" /\ beh[2].k = "pass" /\ beh[3].k = "end"
    /\ ~beh[3].r.ok
    /\ ServeResult = beh[3].r
    /\ FinalResponse.status = beh[3].r.err.status_code

\* C6: every layer calls its next at most once, so every layer body runs
\* at most once in a request and the terminal next is invoked at most once.
C6_AtMostOnce ==
    /\ \A i \in Layers :
           /\ Count("pre", i) <= 1
           /\ Count("next", i) <= 1
           /\ Count("ret", i) <= 1
    /\ Count("last", 0) <= 1

C6_Witness ==
    /\ phase = "done"
    /\ Len(beh) = 3
    /\ \A i \in Layers : Count("pre", i) = 1 /\ Count("next", i) = 1
    /\ Count("last", 0) = 1

----------------------------------------------------------------------------
(* Claims about the shell                                                  *)

\* C7: when the root middleware returns an error, the response carries the
\* error's status code, and the error's message is in the response body if
\* and only if the error is exposed.
C7_ErrorResponse ==
    (phase = "done" /\ ~ServeResult.ok) =>
        /\ FinalResponse.status = ServeResult.err.status_code
        /\ (InBody(FinalResponse, ServeResult.err.message) <=> ServeResult.err.expose)

C7_Witness ==
    /\ phase = "done"
    /\ ~ServeResult.ok
    /\ ServeResult.err.expose
    /\ FinalResponse.status = 400
    /\ FinalResponse.body = <<"Hello, World", "bad request">>

\* C8: serve returns Err exactly when the root middleware returned a server
\* error, and then that error; for a success or a client error it returns
\* Ok with the response.
C8_ThrowServerErrors ==
    phase = "done" =>
        /\ (outcome.ret = "Err" <=>
                (~ServeResult.ok /\ ServeResult.err.kind = "ServerError"))
        /\ (outcome.ret = "Err" => outcome.err = ServeResult.err)
        /\ (outcome.ret # "Err" => outcome.ret = "Ok" /\ Len(outcome.response) = 1)

C8_Witness ==
    /\ phase = "done"
    /\ ~ServeResult.ok
    /\ ServeResult.err.kind = "ClientError"
    /\ outcome.ret = "Ok"
    /\ outcome.response[1].status = 404

\* C9: every request hands off exactly one response, whatever the root
\* middleware returned: a handled error yields a response, and a server
\* error still yields a response before it is re-raised.
C9_Original ==
    phase = "done" => Len(outcome.response) = 1

\* What serve does with one request: it hands off at most one response, and
\* exactly one unless the root middleware returned a server error: a success
\* yields the response, a client error a response with the error's status,
\* and for a server error serve sets the error's status in the Context's
\* response and returns the error without handing any response off.
C9_OneResponseUnlessThrown ==
    /\ Len(outcome.response) <= 1
    /\ (phase # "done" => outcome.response = <<>>)
    /\ (phase = "done" =>
            IF ~ServeResult.ok /\ ServeResult.err.kind = "ServerError"
            THEN /\ outcome.response = <<>>
                 /\ outcome.ret = "Err"
                 /\ resp.status = ServeResult.err.status_code
            ELSE /\ Len(outcome.response) = 1
                 /\ (~ServeResult.ok =>
                        outcome.response[1].status = ServeResult.err.status_code))

C9_Witness ==
    /\ phase = "done"
    /\ ~ServeResult.ok
    /\ ServeResult.err.kind = "ServerError"
    /\ outcome.ret = "Err"
    /\ outcome.response = <<>>
    /\ resp.status = 503

----------------------------------------------------------------------------
(* Configuration and resolution of a Router                                *)

\* The paths, prefixes and method lists routes are registered with.
RawPaths ==
    { <<"/", "a", "/", "b">>, <<"/", "b">>, <<"b", "/">>, <<"/", ":", "x">> }
Prefixes == { <<"/">>, <<"/", "a">> }
MethodLists == { <<"GET">>, <<"GET", "DELETE">> }
\* What a route is registered with: a list of standard methods and a path,
\* or the extension method PURGE, which RouteEndpoint::default gives no table.
Registrations ==
    {[methods |-> m, path |-> p] : m \in MethodLists, p \in RawPaths}
        \cup {[methods |-> <<"PURGE">>, path |-> <<"/", "b">>]}

\* The routes and the gates registered so far, on both routers.
Registered == Len(router.endpoints) + (IF moved THEN 0 ELSE Len(child.endpoints))
Gated == Len(router.middlewares) + Len(child.middlewares)

\* router.gate(middleware)
RouterGate ==
    /\ ~built.called
    /\ Gated < MaxGates
    /\ router' = Router_gate(router, <<"gate", "router", Len(router.middlewares) + 1>>)
    /\ UNCHANGED <<appVars, dispVars, child, moved, built, crudVars, storeVars, ctxVars, fwdVars, exVars>>

\* router.end(methods, path, endpoint)
RouterEnd(methods, path) ==
    /\ ~built.called
    /\ Registered + Len(methods) <= MaxRoutes
    /\ router' = Router_end(router, methods, path,
                            <<"endpoint", "router", Len(router.endpoints) + 1>>)
    /\ UNCHANGED <<appVars, dispVars, child, moved, built, crudVars, storeVars, ctxVars, fwdVars, exVars>>

\* child.gate(middleware)
ChildGate ==
    /\ ~built.called
    /\ ~moved
    /\ Gated < MaxGates
    /\ child' = Router_gate(child, <<"gate", "child", Len(child.middlewares) + 1>>)
    /\ UNCHANGED <<appVars, dispVars, router, moved, built, crudVars, storeVars, ctxVars, fwdVars, exVars>>

\* child.end(methods, path, endpoint)
ChildEnd(methods, path) ==
    /\ ~built.called
    /\ ~moved
    /\ Registered + Len(methods) <= MaxRoutes
    /\ child' = Router_end(child, methods, path,
                           <<"endpoint", "child", Len(child.endpoints) + 1>>)
    /\ UNCHANGED <<appVars, dispVars, router, moved, built, crudVars, storeVars, ctxVars, fwdVars, exVars>>

\* router.include(prefix, child)
Include(prefix) ==
    /\ ~built.called
    /\ ~moved
    /\ router' = Router_include(router, prefix, child)
    /\ moved' = TRUE
    /\ UNCHANGED <<appVars, dispVars, child, built, crudVars, storeVars, ctxVars, fwdVars, exVars>>

\* router.routes(prefix)
Routes(prefix) ==
    /\ ~built.called
    /\ LET res == Router_routes(router, prefix)
       IN built' = [called |-> TRUE, prefix |-> prefix, ok |-> res.ok,
                    value |-> res.value, err |-> res.err]
    /\ UNCHANGED <<appVars, dispVars, router, child, moved, crudVars, storeVars, ctxVars, fwdVars, exVars>>

NextRouter ==
    \/ RouterGate
    \/ \E reg \in Registrations : RouterEnd(reg.methods, reg.path)
    \/ ChildGate
    \/ \E reg \in Registrations : ChildEnd(reg.methods, reg.path)
    \/ \E prefix \in Prefixes : Include(prefix)
    \/ \E prefix \in Prefixes : Routes(prefix)

SpecRouter == Init /\ [][NextRouter]_vars

----------------------------------------------------------------------------
(* Claims about the building of the dispatch table                         *)

\* The routes Router::routes inserted, or tried to: method, fully joined
\* path and composed handler, in insertion order.
BuiltRoutes == Router_on(router, built.prefix)

\* Routes i and j are two static routes of the same method whose fully
\* joined and normalized paths are equal.
StaticConflict(i, j) ==
    LET a == BuiltRoutes[i]
        b == BuiltRoutes[j]
    IN /\ i < j
       /\ a.method = b.method
       /\ Path_parse(a.path).kind = "Static"
       /\ Path_parse(b.path).kind = "Static"
       /\ standardize_path(a.path) = standardize_path(b.path)

\* C10: when two static routes of one method have equal fully joined and
\* normalized paths (own routes or routes of an included router, under the
\* include prefix and the routes prefix), Router::routes returns a conflict
\* error naming such a path and produces no dispatch table.
C10_StaticConflict ==
    (built.called /\ \E i, j \in DOMAIN BuiltRoutes : StaticConflict(i, j)) =>
        /\ ~built.ok
        /\ built.value = <<>>
        /\ built.err.kind = "Conflict::Path"
        /\ \E i, j \in DOMAIN BuiltRoutes :
               StaticConflict(i, j) /\ built.err.path = standardize_path(BuiltRoutes[j].path)

\* The test conflict_path: /a/b of the router against /b of a router
\* included under /a.
C10_Witness ==
    /\ built.called
    /\ built.prefix = <<"/">>
    /\ moved
    /\ Len(router.endpoints) = 2
    /\ router.endpoints[1].method = "GET"
    /\ router.endpoints[1].path = <<"/", "a", "/", "b">>
    /\ router.endpoints[1].endpoint = <<"endpoint", "router", 1>>
    /\ child.endpoints = <<[method |-> "GET", path |-> <<"/", "b">>,
                            endpoint |-> <<"endpoint", "child", 1>>]>>
    /\ router.endpoints[2].method = "GET"
    /\ ~built.ok
    /\ built.value = <<>>
    /\ built.err = [kind |-> "Conflict::Path", path |-> <<"/", "a", "/", "b">>]

----------------------------------------------------------------------------
(* The request path: percent-decoding                                      *)
(*                                                                         *)
(* A raw uri path is a sequence of items, each a plain character or an     *)
(* escape "%XX" standing for one byte.                                     *)

\* The byte an item of the raw path stands for.
ByteOf(item) ==
    CASE item = "/" -> 47
      [] item = "a" -> 97
      [] item = "b" -> 98
      [] item = "c" -> 99
      [] item = "%2F" -> 47
      [] item = "%62" -> 98
      [] item = "%C2" -> 194
      [] item = "%B7" -> 183
      [] item = "%D3" -> 211
      [] item = "%C9" -> 201
      [] OTHER -> 63

\* percent_decode_str(path): the bytes of the path, escapes decoded.
percent_decode_str(raw) == [k \in DOMAIN raw |-> ByteOf(raw[k])]

\* The character of a one-byte (ASCII) sequence.
AsciiChar(b) ==
    CASE b = 47 -> "/"
      [] b = 97 -> "a"
      [] b = 98 -> "b"
      [] b = 99 -> "c"
      [] OTHER -> "?"

\* The character of a well-formed two-byte sequence.
TwoByteChar(b1, b2) ==
    IF b1 = 194 /\ b2 = 183 THEN "U+00B7" ELSE "U+xxxx"

RECURSIVE decode_utf8(_)
\* decode_utf8: the text of the bytes, or a failure when they are not
\* UTF-8. One-byte and two-byte sequences are modelled: a lead byte
\* 0xC2..0xDF wants one continuation byte 0x80..0xBF.
decode_utf8(bytes) ==
    IF bytes = <<>> THEN [ok |-> TRUE, text |-> <<>>]
    ELSE IF Head(bytes) < 128
    THEN LET rest == decode_utf8(Tail(bytes))
         IN [ok |-> rest.ok,
             text |-> IF rest.ok THEN <<AsciiChar(Head(bytes))>> \o rest.text ELSE <<>>]
    ELSE IF /\ Head(bytes) >= 194 /\ Head(bytes) <= 223
            /\ Len(bytes) >= 2
            /\ bytes[2] >= 128 /\ bytes[2] <= 191
    THEN LET rest == decode_utf8(SubSeq(bytes, 3, Len(bytes)))
         IN [ok |-> rest.ok,
             text |-> IF rest.ok THEN <<TwoByteChar(bytes[1], bytes[2])>> \o rest.text
                      ELSE <<>>]
    ELSE [ok |-> FALSE, text |-> <<>>]

----------------------------------------------------------------------------
(* The store of the Context                                                *)

\* A store with one namespace for every symbol.
Context_store_flat(self, symbol, name, value) == MapInsert(self, <<"RouterSymbol", name>>, value)

\* Context::store::<Symbol>(name, value)
Context_store(self, symbol, name, value) == MapInsert(self, <<symbol, name>>, value)

\* Context::load::<Symbol>(name)
Context_load(self, symbol, name) ==
    IF <<symbol, name>> \in DOMAIN self
    THEN [found |-> TRUE, value |-> self[<<symbol, name>>]]
    ELSE [found |-> FALSE, value |-> <<>>]

\* RouterParam::try_param
try_param(self, name) == Context_load(self, "RouterSymbol", name)

\* format!("router variable `{}` is required", name)
RequiredMessage(name) == [text |-> "router variable is required", names |-> name]

\* A param that answers a missing variable with an exposed 400.
param_bad_request(self, name) ==
    LET loaded == try_param(self, name)
    IN IF loaded.found THEN [ok |-> TRUE, value |-> loaded.value, err |-> NoError]
       ELSE [ok |-> FALSE, value |-> <<>>,
             err |-> Error_new(400, RequiredMessage(name), TRUE)]

\* RouterParam::param: the variable, or INTERNAL_SERVER_ERROR with a
\* message that is not exposed.
param(self, name) ==
    LET loaded == try_param(self, name)
    IN IF loaded.found THEN [ok |-> TRUE, value |-> loaded.value, err |-> NoError]
       ELSE [ok |-> FALSE, value |-> <<>>,
             err |-> Error_new(500, RequiredMessage(name), FALSE)]

----------------------------------------------------------------------------
(* Dispatch                                                                *)

\* regex_path.re.captures(path): the pattern matches a path of as many
\* segments whose literal segments are equal, and each variable captures
\* the segment at its place.
Regex_captures(regex_path, path) ==
    LET pat == split_segments(regex_path.path)
        segs == split_segments(path)
        matched == /\ Len(pat) = Len(segs)
                   /\ \A k \in DOMAIN pat :
                          IF IsVariable(pat[k]) THEN segs[k] # <<>> ELSE pat[k] = segs[k]
    IN [matched |-> matched,
        cap |-> IF matched
                THEN [v \in regex_path.vars |->
                         segs[CHOOSE k \in DOMAIN pat : pat[k] = <<":">> \o v]]
                ELSE EmptyMap]

\* The messages of the router's errors: the text and what it names.
\* format!("{}\npath `{}` is not a valid utf-8 string", err, uri.path())
BadPathMessage(uri_path) == [text |-> "path is not a valid utf-8 string", names |-> uri_path]
\* format!("method {} is not allowed", method)
MethodMessage(method) == [text |-> "method is not allowed", names |-> <<method>>]
\* throw!(status): the empty message.
NoMessage == [text |-> "", names |-> <<>>]

\* What dispatch decides: an error to throw, or a handler to run after the
\* captured variables were stored.
Throw(err) == [kind |-> "throw", err |-> err, handler |-> <<>>, cap |-> EmptyMap]
RunHandler(handler, cap) == [kind |-> "run", err |-> NoError, handler |-> handler, cap |-> cap]

\* A dispatch that scans the dynamic routes before the static index.
RouteTable_end_dynamic_first(self, uri_path) ==
    LET decoded == decode_utf8(percent_decode_str(uri_path))
        path == standardize_path(decoded.text)
        hits == {k \in DOMAIN self.dynamic_route :
                    Regex_captures(self.dynamic_route[k].regex_path, path).matched}
        first == CHOOSE k \in hits : \A m \in hits : k <= m
    IN IF ~decoded.ok
       THEN Throw(Error_new(400, BadPathMessage(uri_path), TRUE))
       ELSE IF hits # {}
       THEN RunHandler(self.dynamic_route[first].endpoint,
                       Regex_captures(self.dynamic_route[first].regex_path, path).cap)
       ELSE IF path \in DOMAIN self.static_route
       THEN RunHandler(self.static_route[path], EmptyMap)
       ELSE Throw(Error_new(404, NoMessage, TRUE))

\* A dispatch in which the last matching dynamic route wins.
RouteTable_end_last_match(self, uri_path) ==
    LET decoded == decode_utf8(percent_decode_str(uri_path))
        path == standardize_path(decoded.text)
        hits == {k \in DOMAIN self.dynamic_route :
                    Regex_captures(self.dynamic_route[k].regex_path, path).matched}
        final == CHOOSE k \in hits : \A m \in hits : k >= m
    IN IF ~decoded.ok
       THEN Throw(Error_new(400, BadPathMessage(uri_path), TRUE))
       ELSE IF path \in DOMAIN self.static_route
       THEN RunHandler(self.static_route[path], EmptyMap)
       ELSE IF hits # {}
       THEN RunHandler(self.dynamic_route[final].endpoint,
                       Regex_captures(self.dynamic_route[final].regex_path, path).cap)
       ELSE Throw(Error_new(404, NoMessage, TRUE))

\* A dispatch that stores no captured variable.
RouteTable_end_no_vars(self, uri_path) ==
    LET decoded == decode_utf8(percent_decode_str(uri_path))
        path == standardize_path(decoded.text)
        hits == {k \in DOMAIN self.dynamic_route :
                    Regex_captures(self.dynamic_route[k].regex_path, path).matched}
        first == CHOOSE k \in hits : \A m \in hits : k <= m
    IN IF ~decoded.ok
       THEN Throw(Error_new(400, BadPathMessage(uri_path), TRUE))
       ELSE IF path \in DOMAIN self.static_route
       THEN RunHandler(self.static_route[path], EmptyMap)
       ELSE IF hits # {}
       THEN RunHandler(self.dynamic_route[first].endpoint, EmptyMap)
       ELSE Throw(Error_new(404, NoMessage, TRUE))

\* A dispatch that answers a path that matches nothing with 405.
RouteTable_end_no_404(self, uri_path) ==
    LET decoded == decode_utf8(percent_decode_str(uri_path))
        path == standardize_path(decoded.text)
        hits == {k \in DOMAIN self.dynamic_route :
                    Regex_captures(self.dynamic_route[k].regex_path, path).matched}
        first == CHOOSE k \in hits : \A m \in hits : k <= m
    IN IF ~decoded.ok
       THEN Throw(Error_new(400, BadPathMessage(uri_path), TRUE))
       ELSE IF path \in DOMAIN self.static_route
       THEN RunHandler(self.static_route[path], EmptyMap)
       ELSE IF hits # {}
       THEN RunHandler(self.dynamic_route[first].endpoint,
                       Regex_captures(self.dynamic_route[first].regex_path, path).cap)
       ELSE Throw(Error_new(405, NoMessage, TRUE))

\* A dispatch that treats a path that is not UTF-8 as a path that matches
\* nothing.
RouteTable_end_no_400(self, uri_path) ==
    LET decoded == decode_utf8(percent_decode_str(uri_path))
        path == standardize_path(decoded.text)
        hits == {k \in DOMAIN self.dynamic_route :
                    Regex_captures(self.dynamic_route[k].regex_path, path).matched}
        first == CHOOSE k \in hits : \A m \in hits : k <= m
    IN IF ~decoded.ok
       THEN Throw(Error_new(404, NoMessage, TRUE))
       ELSE IF path \in DOMAIN self.static_route
       THEN RunHandler(self.static_route[path], EmptyMap)
       ELSE IF hits # {}
       THEN RunHandler(self.dynamic_route[first].endpoint,
                       Regex_captures(self.dynamic_route[first].regex_path, path).cap)
       ELSE Throw(Error_new(404, NoMessage, TRUE))

\* A dispatch that, on a static hit, stores what the first matching
\* dynamic pattern captures.
RouteTable_end_static_vars(self, uri_path) ==
    LET decoded == decode_utf8(percent_decode_str(uri_path))
        path == standardize_path(decoded.text)
        hits == {k \in DOMAIN self.dynamic_route :
                    Regex_captures(self.dynamic_route[k].regex_path, path).matched}
        first == CHOOSE k \in hits : \A m \in hits : k <= m
    IN IF ~decoded.ok
       THEN Throw(Error_new(400, BadPathMessage(uri_path), TRUE))
       ELSE IF path \in DOMAIN self.static_route
       THEN RunHandler(self.static_route[path],
                       IF hits # {}
                       THEN Regex_captures(self.dynamic_route[first].regex_path, path).cap
                       ELSE EmptyMap)
       ELSE IF hits # {}
       THEN RunHandler(self.dynamic_route[first].endpoint,
                       Regex_captures(self.dynamic_route[first].regex_path, path).cap)
       ELSE Throw(Error_new(404, NoMessage, TRUE))

\* A dispatch that looks the decoded path up as the request spelled it.
RouteTable_end_raw_path(self, uri_path) ==
    LET decoded == decode_utf8(percent_decode_str(uri_path))
        path == decoded.text
        hits == {k \in DOMAIN self.dynamic_route :
                    Regex_captures(self.dynamic_route[k].regex_path, path).matched}
        first == CHOOSE k \in hits : \A m \in hits : k <= m
    IN IF ~decoded.ok
       THEN Throw(Error_new(400, BadPathMessage(uri_path), TRUE))
       ELSE IF path \in DOMAIN self.static_route
       THEN RunHandler(self.static_route[path], EmptyMap)
       ELSE IF hits # {}
       THEN RunHandler(self.dynamic_route[first].endpoint,
                       Regex_captures(self.dynamic_route[first].regex_path, path).cap)
       ELSE Throw(Error_new(404, NoMessage, TRUE))

\* RouteTable::end, up to the call of the handler: the path is decoded and
\* normalized, looked up in the static index, then matched against the
\* dynamic routes in registration order.
RouteTable_end(self, uri_path) ==
    LET decoded == decode_utf8(percent_decode_str(uri_path))
        path == standardize_path(decoded.text)
        hits == {k \in DOMAIN self.dynamic_route :
                    Regex_captures(self.dynamic_route[k].regex_path, path).matched}
        first == CHOOSE k \in hits : \A m \in hits : k <= m
    IN IF ~decoded.ok
       THEN Throw(Error_new(400, BadPathMessage(uri_path), TRUE))
       ELSE IF path \in DOMAIN self.static_route
       THEN RunHandler(self.static_route[path], EmptyMap)
       ELSE IF hits # {}
       THEN RunHandler(self.dynamic_route[first].endpoint,
                       Regex_captures(self.dynamic_route[first].regex_path, path).cap)
       ELSE Throw(Error_new(404, NoMessage, TRUE))

\* RouteEndpoint::handle, up to the call of the handler: the table of the
\* request's method, 405 when there is none.
RouteEndpoint_handle(self, request) ==
    IF request.method \notin DOMAIN self
    THEN Throw(Error_new(405, MethodMessage(request.method), TRUE))
    ELSE RouteTable_end(self[request.method], request.path)

----------------------------------------------------------------------------
(* A request through an App that gates the built router                    *)

\* An event of the request inside the router: what happened, to which
\* handler, and the store of the Context right after.
REv(ev, who, handler, after) ==
    [ev |-> ev, who |-> who, store |-> after, handler |-> handler]

\* The name under which a gate of a router stores its data.
GateName(token) ==
    <<token[2], CASE token[3] = 1 -> "1" [] token[3] = 2 -> "2" [] token[3] = 3 -> "3"
                  [] OTHER -> "n">>

\* The routes of the configurations that are dispatched on, the prefix a
\* child is included under and the prefix the router is resolved under.
DispatchRegistrations ==
    {[methods |-> <<"GET">>, path |-> p] :
        p \in {<<"/", "b">>, <<"/", ":", "x">>, <<"/", ":", "y">>}}
IncludePrefix == <<"/", "a">>
RoutesPrefix == <<"/">>

\* The requests: GET has a table and routes, DELETE a table and no route,
\* PURGE no table; the paths decode to /b, /a/b, /c/c, a two-byte
\* character, and bytes that are not UTF-8.
BadPath == <<"/", "%D3", "%C9">>
Requests ==
    {[method |-> "GET", path |-> p] :
        p \in { <<"/", "b">>,
                <<"/", "a", "%2F", "%62", "/">>,
                <<"/", "c", "/", "c">>,
                <<"/", "%C2", "%B7">>,
                BadPath }}
    \cup {[method |-> m, path |-> p] : m \in {"DELETE", "PURGE"}, p \in {<<"/", "b">>, BadPath}}

\* The middleware registered before the router and the endpoint registered
\* after it.
MountedBehaviours ==
    <<[k |-> "pass", r |-> OkResult, reg |-> "gate"],
      [k |-> "routes", r |-> OkResult, reg |-> "gate"],
      [k |-> "end", r |-> OkResult, reg |-> "end"]>>

\* App::new(()).gate(before).gate(router.routes(prefix)?).end(after)
Mount ==
    /\ phase = "config"
    /\ built.called /\ built.ok
    /\ beh = <<>>
    /\ beh' = MountedBehaviours
    /\ app' = App_end(App_gate(App_gate(app, <<"user", 1>>), <<"routes", 2>>), <<"user", 3>>)
    /\ UNCHANGED <<phase, ctl, stack, log, resp, outcome, routerVars, dispVars, crudVars, storeVars, ctxVars, fwdVars, exVars>>

\* HttpService::serve for a request of the given method and uri path, up to
\* the call of the root middleware.
Request(method, path) ==
    /\ phase = "config"
    /\ beh = MountedBehaviours
    /\ phase' = "running"
    /\ resp' = Response_new
    /\ ctl' = <<"run", app, <<"last">>>>
    /\ req' = [method |-> method, path |-> path]
    /\ store' = EmptyMap
    /\ rlog' = <<>>
    /\ UNCHANGED <<app, beh, stack, log, outcome, routerVars, crudVars, storeVars, ctxVars, fwdVars, exVars>>

\* A router that hands a request it cannot match to its next.
routes_control_fallthrough(decision, next) ==
    IF decision.kind = "run" THEN <<"run", decision.handler, <<"last">>>>
    ELSE IF decision.err.status_code = 404 THEN <<"invoke", next>>
    ELSE <<"ret", ErrResult(decision.err)>>

\* A router that runs its first gate on a request it resolved to an error.
routes_control_gate_on_error(decision, next) ==
    IF decision.kind = "run" THEN <<"run", decision.handler, <<"last">>>>
    ELSE <<"run", <<"gate", "router", 1>>, <<"last">>>>

\* What the router does once the request is resolved: handler.end(ctx),
\* the handler run with the terminal next, or the error returned. The
\* _next of the router is not used.
routes_control(decision, next) ==
    IF decision.kind = "run" THEN <<"run", decision.handler, <<"last">>>>
    ELSE <<"ret", ErrResult(decision.err)>>

\* A dispatch that takes the dynamic route it matched out of the table.
StepRoutes_consuming ==
    /\ phase = "running"
    /\ ctl[1] = "run"
    /\ ctl[2][1] = "routes"
    /\ LET decision == RouteEndpoint_handle(built.value[1], req)
           table == built.value[1][req.method]
           path == standardize_path(decode_utf8(percent_decode_str(req.path)).text)
           hits == {k \in DOMAIN table.dynamic_route :
                       Regex_captures(table.dynamic_route[k].regex_path, path).matched}
           first == CHOOSE k \in hits : \A m \in hits : k <= m
       IN /\ store' = [key \in DOMAIN store
                               \cup {<<"RouterSymbol", v>> : v \in DOMAIN decision.cap} |->
                          IF key[1] = "RouterSymbol" /\ key[2] \in DOMAIN decision.cap
                          THEN decision.cap[key[2]] ELSE store[key]]
          /\ rlog' = Append(rlog, IF decision.kind = "run"
                                  THEN REv("dispatch", <<"routes">>, decision.handler, store')
                                  ELSE REv("throw", <<"routes">>, <<>>, store'))
          /\ ctl' = routes_control(decision, ctl[3])
          /\ built' = IF decision.kind = "run" /\ DOMAIN decision.cap # {}
                      THEN [built EXCEPT !.value[1][req.method].dynamic_route =
                                             RemoveAt(@, first)]
                      ELSE built
    /\ log' = Append(log, Ev("pre", ctl[2][2], NoResult))
    /\ UNCHANGED <<app, beh, phase, stack, resp, outcome, router, child, moved, req, crudVars, storeVars, ctxVars, fwdVars, exVars>>

\* RouteEndpoint::handle(ctx, _next) and RouteTable::end: the request is
\* resolved; on a match the captured variables are stored and the handler
\* is run, otherwise the error is returned.
StepRoutes ==
    /\ phase = "running"
    /\ ctl[1] = "run"
    /\ ctl[2][1] = "routes"
    /\ LET decision == RouteEndpoint_handle(built.value[1], req)
       IN /\ store' = [key \in DOMAIN store
                               \cup {<<"RouterSymbol", v>> : v \in DOMAIN decision.cap} |->
                          IF key[1] = "RouterSymbol" /\ key[2] \in DOMAIN decision.cap
                          THEN decision.cap[key[2]] ELSE store[key]]
          /\ rlog' = Append(rlog, IF decision.kind = "run"
                                  THEN REv("dispatch", <<"routes">>, decision.handler, store')
                                  ELSE REv("throw", <<"routes">>, <<>>, store'))
          /\ ctl' = routes_control(decision, ctl[3])
    /\ log' = Append(log, Ev("pre", ctl[2][2], NoResult))
    /\ UNCHANGED <<app, beh, phase, stack, resp, outcome, routerVars, req, crudVars, storeVars, ctxVars, fwdVars, exVars>>

\* A gate middleware of a router (tests::gate): it stores its data in the
\* Context and ends with next().await.
StepRouterGate ==
    /\ phase = "running"
    /\ ctl[1] = "run"
    /\ ctl[2][1] = "gate"
    /\ store' = Context_store(store, "TestSymbol", GateName(ctl[2]), <<"0">>)
    /\ rlog' = Append(rlog, REv("gate", ctl[2], <<>>, store'))
    /\ ctl' = <<"invoke", ctl[3]>>
    /\ UNCHANGED <<app, beh, phase, stack, log, resp, outcome, routerVars, req, crudVars, storeVars, ctxVars, fwdVars, exVars>>

\* An endpoint of a router: it reads the Context and returns Ok(()).
StepRouterEnd ==
    /\ phase = "running"
    /\ ctl[1] = "run"
    /\ ctl[2][1] = "endpoint"
    /\ rlog' = Append(rlog, REv("endpoint", ctl[2], <<>>, store))
    /\ ctl' = <<"ret", OkResult>>
    /\ UNCHANGED <<app, beh, phase, stack, log, resp, outcome, routerVars, req, store, crudVars, storeVars, ctxVars, fwdVars, exVars>>

\* The terminal next is left out: no handler of these configurations
\* reaches it, every endpoint being a fn(Context) that has no next.
NextDispatch ==
    \/ RouterGate
    \/ \E reg \in DispatchRegistrations : RouterEnd(reg.methods, reg.path)
    \/ ChildGate
    \/ \E reg \in DispatchRegistrations : ChildEnd(reg.methods, reg.path)
    \/ Include(IncludePrefix)
    \/ Routes(RoutesPrefix)
    \/ Mount
    \/ \E r \in Requests : Request(r.method, r.path)
    \/ StepJoin
    \/ StepEmpty
    \/ StepNext
    \/ StepLayer
    \/ StepResume
    \/ StepRoutes
    \/ StepRouterGate
    \/ StepRouterEnd
    \/ ServeEnd

SpecDispatch == Init /\ [][NextDispatch]_vars

----------------------------------------------------------------------------
(* Reading the history of the request inside the router                    *)

\* The decoded and normalized path of the request, when it decodes.
Decoded == decode_utf8(percent_decode_str(req.path))
RequestPath == standardize_path(Decoded.text)

\* The table of the request's method.
HasTable == req.method \in DOMAIN built.value[1]
Table == built.value[1][req.method]

\* The router has resolved the request.
Dispatched == \E k \in DOMAIN rlog : rlog[k].ev \in {"dispatch", "throw"}
\* The handlers (gates and endpoints) that ran, in order.
IsHandlerEvent(e) == e.ev \in {"gate", "endpoint"}
HandlersRun ==
    LET evs == SelectSeq(rlog, IsHandlerEvent)
    IN [k \in DOMAIN evs |-> evs[k].who]
\* The handler the router chose, <<>> when it threw.
Chosen ==
    IF \E k \in DOMAIN rlog : rlog[k].ev = "dispatch"
    THEN rlog[CHOOSE k \in DOMAIN rlog : rlog[k].ev = "dispatch"].handler
    ELSE <<>>

RECURSIVE Flatten(_)
\* The gates and the endpoint a composed handler consists of, outermost
\* first.
Flatten(handler) ==
    IF handler[1] = "join" THEN Flatten(handler[2]) \o Flatten(handler[3])
    ELSE IF handler[1] = "empty" THEN <<>>
    ELSE <<handler>>

\* The registered routes of the request's method whose pattern is dynamic
\* and matches the request path, and those whose static path is the
\* request path (indexes in insertion order).
DynamicMatches ==
    {i \in DOMAIN BuiltRoutes :
        /\ BuiltRoutes[i].method = req.method
        /\ Path_parse(BuiltRoutes[i].path).kind = "Dynamic"
        /\ Regex_captures(Path_parse(BuiltRoutes[i].path), RequestPath).matched}
StaticMatches ==
    {i \in DOMAIN BuiltRoutes :
        /\ BuiltRoutes[i].method = req.method
        /\ Path_parse(BuiltRoutes[i].path).kind = "Static"
        /\ standardize_path(BuiltRoutes[i].path) = RequestPath}
FirstDynamic == CHOOSE i \in DynamicMatches : \A j \in DynamicMatches : i <= j

\* The router variables of the store.
RouterVariables(s) == {key[2] : key \in {k \in DOMAIN s : k[1] = "RouterSymbol"}}

----------------------------------------------------------------------------
(* Claims about dispatch                                                   *)

\* C11: the build fails only when two static routes conflict, never
\* because a dynamic pattern overlaps another pattern or a static path; and
\* when the request resolves to a dynamic route (no static route of the
\* method has its path), the handler that runs is the one of the first
\* registered dynamic pattern of the method that matches: at the end of
\* the request that handler's gates and endpoint ran, and nothing else.
C11_FirstDynamicWins ==
    /\ (built.called /\ ~built.ok) =>
           \E i, j \in DOMAIN BuiltRoutes : StaticConflict(i, j)
    /\ (phase = "done" /\ HasTable /\ Decoded.ok /\ StaticMatches = {} /\ DynamicMatches # {}) =>
           /\ Chosen = BuiltRoutes[FirstDynamic].endpoint
           /\ HandlersRun = Flatten(BuiltRoutes[FirstDynamic].endpoint)

C11_Witness ==
    /\ phase = "done"
    /\ ~moved
    /\ Len(router.endpoints) = 2
    /\ router.endpoints[1].path = <<"/", ":", "x">>
    /\ router.endpoints[2].path = <<"/", ":", "y">>
    /\ req = [method |-> "GET", path |-> <<"/", "b">>]
    /\ DynamicMatches = {1, 2}
    /\ HandlersRun = <<<<"endpoint", "router", 1>>>>

\* C12: when a static route of the request's method has the request path,
\* its handler has run at the end of the request and no other, whether the
\* dynamic patterns that match the path were registered before or after
\* it, and no router variable was stored at any moment.
C12_StaticFirst ==
    (phase = "done" /\ HasTable /\ Decoded.ok /\ StaticMatches # {}) =>
        \E i \in StaticMatches :
            /\ Chosen = BuiltRoutes[i].endpoint
            /\ HandlersRun = Flatten(BuiltRoutes[i].endpoint)
            /\ \A k \in DOMAIN rlog : RouterVariables(rlog[k].store) = {}
            /\ RouterVariables(store) = {}

C12_Witness ==
    /\ phase = "done"
    /\ ~moved
    /\ Len(router.endpoints) = 2
    /\ router.endpoints[1].path = <<"/", ":", "x">>
    /\ router.endpoints[2].path = <<"/", "b">>
    /\ req = [method |-> "GET", path |-> <<"/", "b">>]
    /\ DynamicMatches = {1}
    /\ StaticMatches = {2}
    /\ HandlersRun = <<<<"endpoint", "router", 2>>>>

\* The variables of a pattern and, for a path it matches, the segment each
\* one stands at.
PatternVars(pattern) ==
    {Tail(s) : s \in {split_segments(pattern)[k] : k \in
        {m \in DOMAIN split_segments(pattern) : IsVariable(split_segments(pattern)[m])}}}
SegmentAt(pattern, path, v) ==
    split_segments(path)[CHOOSE k \in DOMAIN split_segments(pattern) :
                             split_segments(pattern)[k] = <<":">> \o v]
\* The names router variables are asked by.
VariableNames == {<<"x">>, <<"y">>, <<"z">>}

\* C13: when the request resolved to a dynamic route, then from the moment
\* the router resolved it, before any gate or endpoint of the handler ran,
\* and until the end of the request, every variable of the winning
\* pattern was in the store of the Context under the router's symbol with
\* the segment of the decoded path it stands at, and a name the pattern
\* does not declare was not found.
C13_VariablesStored ==
    (phase = "done" /\ HasTable /\ Decoded.ok /\ StaticMatches = {} /\ DynamicMatches # {}) =>
        LET pattern == standardize_path(BuiltRoutes[FirstDynamic].path)
            Holds(s) ==
                \A name \in VariableNames :
                    IF name \in PatternVars(pattern)
                    THEN /\ try_param(s, name).found
                         /\ try_param(s, name).value = SegmentAt(pattern, RequestPath, name)
                    ELSE ~try_param(s, name).found
        IN /\ rlog[1].ev = "dispatch"
           /\ \A k \in DOMAIN rlog : Holds(rlog[k].store)
           /\ Holds(store)

C13_Witness ==
    /\ phase = "done"
    /\ moved
    /\ req = [method |-> "GET", path |-> <<"/", "a", "%2F", "%62", "/">>]
    /\ Len(rlog) = 3
    /\ rlog[1].ev = "dispatch"
    /\ try_param(rlog[1].store, <<"x">>) = [found |-> TRUE, value |-> <<"b">>]
    /\ ~try_param(rlog[1].store, <<"y">>).found
    /\ rlog[2].ev = "gate"
    /\ rlog[3].ev = "endpoint"
    /\ try_param(rlog[3].store, <<"x">>).value = <<"b">>

\* No route of the request's method answers the request path.
NoMatch == StaticMatches = {} /\ DynamicMatches = {}
\* A static route registered for GET has the request path.
GetRouteAtPath ==
    \E i \in DOMAIN BuiltRoutes :
        /\ BuiltRoutes[i].method = "GET"
        /\ Path_parse(BuiltRoutes[i].path).kind = "Static"
        /\ standardize_path(BuiltRoutes[i].path) = RequestPath
\* The error the request ended with has this status, and the response too.
EndedWith(status_code) ==
    /\ ~ServeResult.ok
    /\ ServeResult.err.status_code = status_code
    /\ FinalResponse.status = status_code

\* C14: with only GET registered for a path, a DELETE request for that path
\* yields 405 Method Not Allowed, and a GET request for a path no route
\* answers yields 404 Not Found.
C14_MethodCoverage ==
    (phase = "done" /\ Decoded.ok) =>
        /\ (req.method = "DELETE" /\ GetRouteAtPath /\ NoMatch) => EndedWith(405)
        /\ (req.method = "GET" /\ NoMatch) => EndedWith(404)

\* C15: a request whose method has a table and whose decoded, normalized
\* path no static route and no dynamic pattern of that method answers ends
\* with a 404 error and runs no handler; so does every such request on a
\* router without routes.
C15_NotFound ==
    (phase = "done" /\ HasTable /\ Decoded.ok /\ NoMatch) =>
        /\ Chosen = <<>>
        /\ HandlersRun = <<>>
        /\ rlog[1].ev = "throw"
        /\ EndedWith(404)
        /\ outcome.ret = "Ok"

C15_Witness ==
    /\ phase = "done"
    /\ BuiltRoutes = <<>>
    /\ req = [method |-> "GET", path |-> <<"/", "%C2", "%B7">>]
    /\ EndedWith(404)
    /\ HandlersRun = <<>>

\* The request ended with the 400 error of a path that is not UTF-8: the
\* message, written to the response, names the raw path; no handler ran.
BadPathAnswer ==
    /\ EndedWith(400)
    /\ ServeResult.err.expose
    /\ ServeResult.err.message.text = "path is not a valid utf-8 string"
    /\ ServeResult.err.message.names = req.path
    /\ InBody(FinalResponse, ServeResult.err.message)
    /\ HandlersRun = <<>>

\* C16: a request whose path percent-decodes to bytes that are not UTF-8
\* ends with a 400 error whose exposed message names the raw path, and no
\* handler runs, whatever routes are registered.
C16_Original ==
    (phase = "done" /\ ~Decoded.ok) => BadPathAnswer

\* C16 amended: as C16, for a request whose method has a route table (any
\* of the nine standard methods, or a method a route is registered for);
\* the method is looked up first, and for a method without a table the
\* request ends with 405 whatever its path.
C16_BadPath ==
    (phase = "done" /\ ~Decoded.ok) =>
        IF HasTable THEN BadPathAnswer ELSE EndedWith(405) /\ HandlersRun = <<>>

C16_Witness ==
    /\ phase = "done"
    /\ req = [method |-> "GET", path |-> <<"/", "%D3", "%C9">>]
    /\ Len(BuiltRoutes) = 2
    /\ BadPathAnswer
    /\ FinalResponse.body = <<BadPathMessage(<<"/", "%D3", "%C9">>)>>

\* C17: the router never invokes its next: whatever the request resolves
\* to (a handler, 404, 405 or 400), the endpoint registered on the App
\* after the router never runs, the continuation of the router is never
\* invoked, and the layer before the router receives the router's result.
C17_RouterIsTerminal ==
    /\ ~Ran(3)
    /\ Count("next", 2) = 0
    /\ Count("last", 0) = 0
    /\ ~(ctl[1] = "invoke" /\ ctl[2] = <<"last">>)
    /\ ~(ctl[1] = "run" /\ ctl[2] = <<"user", 3>>)
    /\ (phase = "done" =>
            /\ Ran(2)
            /\ Resumed(1)
            /\ (GotOf(1).ok <=> Chosen # <<>>)
            /\ (~GotOf(1).ok => GotOf(1).err.status_code \in {400, 404, 405}))

C17_Witness ==
    /\ phase = "done"
    /\ HandlersRun # <<>>
    /\ GotOf(1).ok
    /\ ~Ran(3)
    /\ FinalResponse.status = 200
    /\ FinalResponse.body = <<>>

----------------------------------------------------------------------------
(* Claims about the gates of a router                                      *)

\* The endpoint of a composed handler and the router that owns it.
EndpointOf(handler) == Flatten(handler)[Len(Flatten(handler))]
OwnerGates(handler) ==
    IF EndpointOf(handler)[2] = "router" THEN router.middlewares ELSE child.middlewares
\* The gates of one router among the members of a handler, in order.
GatesOf(members, owner) ==
    LET IsGateOfOwner(h) == h[1] = "gate" /\ h[2] = owner
    IN SelectSeq(members, IsGateOfOwner)
\* The data of every one of these gates is in the store.
GateDataIn(s, gates) ==
    \A k \in DOMAIN gates : Context_load(s, "TestSymbol", GateName(gates[k])).found

\* C18: the handler of every route is the route's endpoint behind all the
\* gates of the router that owns it, in the order the gates were
\* registered, whether a gate was registered before or after the route;
\* for a matched request these gates run before the endpoint, which finds
\* in the Context what each of them stored.
C18_GatesWrapRoutes ==
    /\ (built.called /\ beh = <<>>) =>
           \A i \in DOMAIN BuiltRoutes :
               LET handler == BuiltRoutes[i].endpoint
               IN /\ EndpointOf(handler)[1] = "endpoint"
                  /\ GatesOf(Flatten(handler), EndpointOf(handler)[2]) = OwnerGates(handler)
    /\ (phase = "done" /\ Chosen # <<>>) =>
           /\ HandlersRun = Flatten(Chosen)
           /\ GatesOf(HandlersRun, EndpointOf(Chosen)[2]) = OwnerGates(Chosen)
           /\ rlog[Len(rlog)].ev = "endpoint"
           /\ rlog[Len(rlog)].who = EndpointOf(Chosen)
           /\ GateDataIn(rlog[Len(rlog)].store, OwnerGates(Chosen))

\* tests::gate, with the gate registered after the route.
C18_Witness ==
    /\ phase = "done"
    /\ ~moved
    /\ router.middlewares = <<<<"gate", "router", 1>>>>
    /\ HandlersRun = <<<<"gate", "router", 1>>, <<"endpoint", "router", 1>>>>
    /\ Context_load(rlog[Len(rlog)].store, "TestSymbol", <<"router", "1">>).found

\* C19: the routes of an included child are in the parent, in the child's
\* order, each with its method, with the path of prefix and child path
\* joined and normalized, and with the child's gates and endpoint as
\* handler; a request that resolves to such a route runs the parent's
\* gates, then the child's gates, then the child's endpoint.
C19_IncludeNests ==
    /\ (moved /\ beh = <<>>) =>
           \E offset \in 0..Len(router.endpoints) :
               \A k \in DOMAIN child.endpoints :
                   /\ offset + k \in DOMAIN router.endpoints
                   /\ router.endpoints[offset + k].method = child.endpoints[k].method
                   /\ router.endpoints[offset + k].path =
                          standardize_path(trim_slashes(IncludePrefix) \o <<"/">>
                                               \o trim_slashes(child.endpoints[k].path))
                   /\ Flatten(router.endpoints[offset + k].endpoint) =
                          Append(child.middlewares, child.endpoints[k].endpoint)
    /\ (phase = "done" /\ Chosen # <<>> /\ EndpointOf(Chosen)[2] = "child") =>
           HandlersRun = router.middlewares \o child.middlewares \o <<EndpointOf(Chosen)>>

\* tests::route, with a gate on the child too.
C19_Witness ==
    /\ phase = "done"
    /\ moved
    /\ req.path = <<"/", "a", "%2F", "%62", "/">>
    /\ Len(child.endpoints) = 1
    /\ child.endpoints[1].path = <<"/", "b">>
    /\ router.endpoints[1].path = <<"/", "a", "/", "b">>
    /\ HandlersRun = << <<"gate", "router", 1>>, <<"gate", "child", 1>>,
                        <<"endpoint", "child", 1>> >>

-----------------------------------------------------------------------------
(* The CRUD scenario (integration-tests/restful.rs, examples/restful-api.rs) *)

\* How many requests a run of the scenario sends, and the largest id a
\* request names in its path.
MaxRequests == 4
MaxId == 1

CrudIds == 0..MaxId

\* What the client saw of one request: the method, the id of the path
\* (POST has none), the user it sent (GET and DELETE send none), the
\* status, and the body: a user, or the generated id of a POST.
Reply(method, id, sent, status, user, newid) ==
    [method |-> method, id |-> id, sent |-> sent, status |-> status,
     user |-> user, newid |-> newid]

NoId == MaxId + MaxRequests + 1

\* POST /user: the user is added under the write lock and the response
\* is 201 with {"id": id}.
CreateUser(user) ==
    /\ Len(replies) < MaxRequests
    /\ LET added == DB_add(db, user)
       IN /\ db' = added.db
          /\ replies' = Append(replies, Reply("POST", NoId, user, 201, NoUser, added.id))
    /\ UNCHANGED <<appVars, routerVars, dispVars, storeVars, ctxVars, fwdVars, exVars>>

\* GET /user/:id: the user is read under the read lock; 404 when the id
\* is not in the table.
GetUser(id) ==
    /\ Len(replies) < MaxRequests
    /\ LET got == DB_get(db, id)
       IN replies' = Append(replies,
                        IF got.some THEN Reply("GET", id, NoUser, 200, got.user, NoId)
                        ELSE Reply("GET", id, NoUser, 404, NoUser, NoId))
    /\ UNCHANGED <<appVars, routerVars, dispVars, db, storeVars, ctxVars, fwdVars, exVars>>

\* PUT /user/:id: update under the write lock, then the body is what
\* update left in `user`; 404 when the id is not in the table. A panic
\* inside update ends the task without a response.
UpdateUser(id, user) ==
    /\ Len(replies) < MaxRequests
    /\ LET updated == DB_update(db, id, user)
       IN /\ db' = updated.db
          /\ replies' = Append(replies,
                            IF updated.panic THEN Reply("PUT", id, user, 0, NoUser, NoId)
                            ELSE IF updated.swapped
                            THEN Reply("PUT", id, user, 200, updated.user, NoId)
                            ELSE Reply("PUT", id, user, 404, NoUser, NoId))
    /\ UNCHANGED <<appVars, routerVars, dispVars, storeVars, ctxVars, fwdVars, exVars>>

\* DELETE /user/:id: delete under the write lock, the body is the user
\* removed; 404 when the id is not in the table.
DeleteUser(id) ==
    /\ Len(replies) < MaxRequests
    /\ LET deleted == DB_delete(db, id)
       IN /\ db' = deleted.db
          /\ replies' = Append(replies,
                            IF deleted.panic THEN Reply("DELETE", id, NoUser, 0, NoUser, NoId)
                            ELSE IF deleted.some
                            THEN Reply("DELETE", id, NoUser, 200, deleted.user, NoId)
                            ELSE Reply("DELETE", id, NoUser, 404, NoUser, NoId))
    /\ UNCHANGED <<appVars, routerVars, dispVars, storeVars, ctxVars, fwdVars, exVars>>

NextCrud ==
    \/ \E user \in Users : CreateUser(user)
    \/ \E id \in CrudIds : GetUser(id)
    \/ \E id \in CrudIds, user \in Users : UpdateUser(id, user)
    \/ \E id \in CrudIds : DeleteUser(id)

SpecCrud == Init /\ [][NextCrud]_vars

\* Request h put a value under the id (a POST that was given the id, a PUT
\* of the id that succeeded) and no PUT or DELETE of the id was sent after
\* it and before request j.
Established(h, j, id) ==
    /\ h < j
    /\ \/ replies[h].method = "POST" /\ replies[h].newid = id
       \/ replies[h].method = "PUT" /\ replies[h].id = id /\ replies[h].status = 200
    /\ \A k \in (h + 1)..(j - 1) :
           ~(replies[k].method \in {"PUT", "DELETE"} /\ replies[k].id = id)

\* C20: on a fresh store the first POST is answered 201 with id 0; a GET
\* of an id is answered 200 with the value the last POST or PUT put under
\* it, as long as no PUT or DELETE of the id came between; a PUT of an id
\* that has a value is answered 200 with that previous value, and the
\* value it sent is what the GETs after it return.
C20_CrudSwap ==
    /\ \A i \in DOMAIN replies :
           (replies[i].method = "POST" /\ \A k \in 1..(i - 1) : replies[k].method # "POST") =>
               replies[i].status = 201 /\ replies[i].newid = 0
    /\ \A j \in DOMAIN replies : \A h \in 1..(j - 1) : \A id \in CrudIds :
           (Established(h, j, id) /\ replies[j].id = id /\ replies[j].method \in {"GET", "PUT"}) =>
               /\ replies[j].status = 200
               /\ replies[j].user = replies[h].sent
    /\ \A id \in CrudIds :
           (\E h \in DOMAIN replies : Established(h, Len(replies) + 1, id)) =>
               \E h \in DOMAIN replies :
                   /\ Established(h, Len(replies) + 1, id)
                   /\ DB_get(db, id) = [some |-> TRUE, user |-> replies[h].sent]

\* POST, GET, PUT of another value, GET: the PUT returned the posted value
\* and the last GET the value of the PUT.
C20_Witness ==
    /\ Len(replies) = 4
    /\ replies[1].method = "POST" /\ replies[1].newid = 0
    /\ replies[2].method = "GET" /\ replies[2].id = 0 /\ replies[2].user = replies[1].sent
    /\ replies[3].method = "PUT" /\ replies[3].id = 0 /\ replies[3].sent # replies[1].sent
    /\ replies[3].status = 200 /\ replies[3].user = replies[1].sent
    /\ replies[4].method = "GET" /\ replies[4].id = 0 /\ replies[4].user = replies[3].sent

\* The reply of the request a step has answered.
LastReply(history) == history[Len(history)]

\* C21: a GET, PUT or DELETE of an id the store does not hold is answered
\* 404 and leaves the store as it was; a DELETE of an id the store holds is
\* answered 200 with the user that was under the id and takes the id out
\* of the store; and after a DELETE that was answered 200, every GET, PUT
\* and DELETE of the id is answered 404 until a POST is given the id.
C21_AbsentIsNotFound ==
    [][Len(replies') = Len(replies) + 1 =>
        LET r == LastReply(replies')
        IN /\ (r.method \in {"GET", "PUT", "DELETE"} /\ ~Slab_contains(db.main_table, r.id)) =>
                  r.status = 404 /\ db' = db
           /\ (r.method = "DELETE" /\ Slab_contains(db.main_table, r.id)) =>
                  /\ r.status = 200
                  /\ r.user = DB_get(db, r.id).user
                  /\ ~Slab_contains(db'.main_table, r.id)
                  /\ DB_get(db', r.id).some = FALSE
           /\ \A h \in DOMAIN replies :
                  ( /\ replies[h].method = "DELETE" /\ replies[h].status = 200
                    /\ replies[h].id = r.id
                    /\ r.method \in {"GET", "PUT", "DELETE"}
                    /\ \A k \in (h + 1)..Len(replies) :
                           ~(replies[k].method = "POST" /\ replies[k].newid = r.id) ) =>
                      r.status = 404
    ]_vars

\* POST, DELETE of the id answered with the posted user, a second DELETE
\* answered 404, then a PUT or a GET of the id answered 404.
C21_Witness ==
    /\ Len(replies) = 4
    /\ replies[1].method = "POST"
    /\ replies[2].method = "DELETE" /\ replies[2].id = replies[1].newid
    /\ replies[2].status = 200 /\ replies[2].user = replies[1].sent
    /\ replies[3].method = "DELETE" /\ replies[3].id = replies[2].id /\ replies[3].status = 404
    /\ replies[4].method \in {"PUT", "GET"} /\ replies[4].id = replies[2].id
    /\ replies[4].status = 404
    /\ db.main_table.entries = <<Vacant(1)>>

-----------------------------------------------------------------------------
(* The store of the Context under stores and loads of several symbols      *)

\* How many stores and loads a request makes.
MaxOps == 4

\* The symbols: the router's, and the one of tests::gate for user data.
Symbols == {"RouterSymbol", "TestSymbol"}
\* The names: a route variable, and the name tests::gate uses. User data
\* may be stored under the name of a route variable.
StoreNames == {<<"x">>, <<"i", "d">>}
StoreValues == {<<"0">>, <<"b">>}

Op(op, symbol, name, value, found) ==
    [op |-> op, symbol |-> symbol, name |-> name, value |-> value, found |-> found]

\* ctx.store::<Symbol>(name, value).await
StoreOp(symbol, name, value) ==
    /\ Len(ops) < MaxOps
    /\ store' = Context_store(store, symbol, name, value)
    /\ ops' = Append(ops, Op("store", symbol, name, value, TRUE))
    /\ UNCHANGED <<appVars, routerVars, crudVars, req, rlog, ctxVars, fwdVars, exVars>>

\* ctx.load::<Symbol>(name).await
LoadOp(symbol, name) ==
    /\ Len(ops) < MaxOps
    /\ LET loaded == Context_load(store, symbol, name)
       IN ops' = Append(ops, Op("load", symbol, name, loaded.value, loaded.found))
    /\ UNCHANGED <<appVars, routerVars, crudVars, dispVars, ctxVars, fwdVars, exVars>>

\* ctx.param(name).await of a handler.
ParamOp(name) ==
    /\ Len(ops) < MaxOps
    /\ LET asked == param(store, name)
       IN ops' = Append(ops, [op |-> "param", symbol |-> "RouterSymbol", name |-> name,
                              value |-> asked.value, found |-> asked.ok, err |-> asked.err])
    /\ UNCHANGED <<appVars, routerVars, crudVars, dispVars, ctxVars, fwdVars, exVars>>

NextStore ==
    \/ \E symbol \in Symbols, name \in StoreNames, value \in StoreValues :
           StoreOp(symbol, name, value)
    \/ \E symbol \in Symbols, name \in StoreNames : LoadOp(symbol, name)
    \/ \E name \in StoreNames : ParamOp(name)

SpecStore == Init /\ [][NextStore]_vars

\* The stores under a symbol and a name before operation k.
StoresBefore(k, symbol, name) ==
    {h \in 1..(k - 1) : /\ ops[h].op = "store"
                         /\ ops[h].symbol = symbol
                         /\ ops[h].name = name}

\* C22: a load under a symbol and a name finds the value of the last
\* store under the same symbol and the same name, and finds nothing when
\* there was none, whatever was stored under the same name with another
\* symbol before or in between; so user data under the name of a route
\* variable and the router's variable are two entries.
C22_StoreNamespaced ==
    \A k \in DOMAIN ops :
        ops[k].op = "load" =>
            LET prior == StoresBefore(k, ops[k].symbol, ops[k].name)
            IN IF prior = {}
               THEN ~ops[k].found
               ELSE /\ ops[k].found
                    /\ ops[k].value = ops[CHOOSE h \in prior : \A g \in prior : g <= h].value

\* The router's variable x, then user data under the same name, then
\* both loaded: each load finds its own value.
C22_Witness ==
    /\ Len(ops) = 4
    /\ ops[1] = Op("store", "RouterSymbol", <<"x">>, <<"b">>, TRUE)
    /\ ops[2] = Op("store", "TestSymbol", <<"x">>, <<"0">>, TRUE)
    /\ ops[3] = Op("load", "RouterSymbol", <<"x">>, <<"b">>, TRUE)
    /\ ops[4] = Op("load", "TestSymbol", <<"x">>, <<"0">>, TRUE)
    /\ try_param(store, <<"x">>).value = <<"b">>

-----------------------------------------------------------------------------
(* Requests in flight: each one's Context, chain and guards                 *)

\* An instruction of a middleware: lock a cell of the Context and keep the
\* guard, write or read through the guard, drop the guard, call next, or
\* throw. "shared" is what the model shares, reached through the state.
Ins(op, cell) == [op |-> op, cell |-> cell]

\* A gate that writes the response, calls next and reads the response.
GateWrite ==
    <<Ins("lock", "response"), Ins("write", "response"), Ins("unlock", "response"),
      Ins("next", ""),
      Ins("lock", "response"), Ins("read", "response"), Ins("unlock", "response")>>
\* A gate that keeps the guard of the response across next.
GateHold ==
    <<Ins("lock", "response"), Ins("write", "response"), Ins("next", ""),
      Ins("unlock", "response")>>
\* A gate that only calls next.
GatePass == <<Ins("next", "")>>
\* An endpoint that reads and writes the response.
EndWrite ==
    <<Ins("lock", "response"), Ins("read", "response"), Ins("write", "response"),
      Ins("unlock", "response")>>
\* An endpoint that writes its state and what the model shares, and reads
\* both back.
EndState ==
    <<Ins("lock", "state"), Ins("write", "state"), Ins("write", "shared"),
      Ins("read", "state"), Ins("read", "shared"), Ins("unlock", "state")>>
\* An endpoint that throws.
EndThrow == <<Ins("throw", "")>>

\* The chains of the requests: a gate and an endpoint.
Scenarios ==
    { [gate |-> GateWrite, endpoint |-> EndWrite],
      [gate |-> GateHold, endpoint |-> EndWrite],
      [gate |-> GatePass, endpoint |-> EndState],
      [gate |-> GateWrite, endpoint |-> EndThrow] }

\* What a handler of a request writes: the request and the layer.
WriterName(r, depth) ==
    <<<<"1g", "1e">>, <<"2g", "2e">>, <<"3g", "3e">>, <<"4g", "4e">>>>[r][depth]

Frame(context, script) == [context |-> context, script |-> script, ip |-> 1, guards |-> {}]

Top(r) == tasks[r].frames[Len(tasks[r].frames)]
Depth(r) == Len(tasks[r].frames)
AtIns(r) ==
    IF Top(r).ip <= Len(Top(r).script) THEN Top(r).script[Top(r).ip] ELSE Ins("return", "")
\* The cell an instruction of the top frame names, found through the
\* frame's own handle.
CellOf(r, name) ==
    IF name = "shared" THEN heap[Top(r).context.state].value.shared
    ELSE Top(r).context[name]

TEv(depth, op, cell, value) == [depth |-> depth, op |-> op, cell |-> cell, value |-> value]

Advance(r) == [tasks EXCEPT ![r].frames[Depth(r)].ip = @ + 1]

\* HttpService::serve up to the root middleware: Context::new with
\* model.new_state(), then middleware.end(context.clone()).
Serve(r, scenario) ==
    /\ tasks[r].status = "idle"
    /\ \A q \in RequestIds : q < r => tasks[q].status # "idle"
    /\ LET state == Model_new_state
           made == Context_new(heap, r, state)
           cloned == Context_clone(made.heap, made.context)
       IN /\ heap' = cloned.heap
          /\ tasks' = [tasks EXCEPT ![r] =
                 [@ EXCEPT !.status = "running",
                           !.context = made.context,
                           !.frames = <<Frame(cloned.context, scenario.gate)>>,
                           !.endpoint = scenario.endpoint,
                           !.new_state_calls = @ + 1]]
    /\ UNCHANGED <<appVars, routerVars, dispVars, crudVars, storeVars, fwdVars, exVars>>

\* ctx.resp_mut().await, ctx.state().await kept in a variable: the frame
\* waits until the Mutex is free and then holds the guard.
StepLock(r) ==
    /\ tasks[r].status = "running"
    /\ AtIns(r).op = "lock"
    /\ LET c == CellOf(r, AtIns(r).cell)
           locked == Mutex_lock(heap[c], <<r, Depth(r)>>)
       IN /\ locked.acquired
          /\ heap' = [heap EXCEPT ![c] = locked.cell]
          /\ tasks' = [Advance(r) EXCEPT ![r].frames[Depth(r)].guards = @ \cup {c}]
    /\ UNCHANGED <<appVars, routerVars, dispVars, crudVars, storeVars, fwdVars, exVars>>

\* A write through a guard: write_str on the response, a change of the
\* state, or of what the model shares.
StepWrite(r) ==
    /\ tasks[r].status = "running"
    /\ AtIns(r).op = "write"
    /\ LET c == CellOf(r, AtIns(r).cell)
           w == WriterName(r, Depth(r))
           value == CASE AtIns(r).cell = "response" -> write_str(heap[c].value, w)
                      [] AtIns(r).cell = "state" -> [heap[c].value EXCEPT !.own = Append(@, w)]
                      [] AtIns(r).cell = "store" ->
                             Context_store(heap[c].value, "RouterSymbol", <<"x">>, <<w>>)
                      [] OTHER -> <<w>>
       IN /\ heap' = [heap EXCEPT ![c].value = value]
          /\ tasks' = [Advance(r) EXCEPT ![r].trace =
                           Append(@, TEv(Depth(r), "write", AtIns(r).cell, <<w>>))]
    /\ UNCHANGED <<appVars, routerVars, dispVars, crudVars, storeVars, fwdVars, exVars>>

\* A read through a guard.
StepRead(r) ==
    /\ tasks[r].status = "running"
    /\ AtIns(r).op = "read"
    /\ LET c == CellOf(r, AtIns(r).cell)
           value == CASE AtIns(r).cell = "response" -> heap[c].value.body
                      [] AtIns(r).cell = "state" -> heap[c].value.own
                      [] OTHER -> heap[c].value
       IN tasks' = [Advance(r) EXCEPT ![r].trace =
                       Append(@, TEv(Depth(r), "read", AtIns(r).cell, value))]
    /\ UNCHANGED <<appVars, routerVars, dispVars, crudVars, storeVars, heap, fwdVars, exVars>>

\* The guard goes out of scope.
StepUnlock(r) ==
    /\ tasks[r].status = "running"
    /\ AtIns(r).op = "unlock"
    /\ LET c == CellOf(r, AtIns(r).cell)
       IN /\ heap' = [heap EXCEPT ![c] = Mutex_unlock(@)]
          /\ tasks' = [Advance(r) EXCEPT ![r].frames[Depth(r)].guards = @ \ {c}]
    /\ UNCHANGED <<appVars, routerVars, dispVars, crudVars, storeVars, fwdVars, exVars>>

\* next().await of the gate: the endpoint runs with its own clone of the
\* Context, and the gate keeps whatever guards it holds.
StepCallNext(r) ==
    /\ tasks[r].status = "running"
    /\ AtIns(r).op = "next"
    /\ LET cloned == Context_clone(heap, Top(r).context)
       IN /\ heap' = cloned.heap
          /\ tasks' = [Advance(r) EXCEPT ![r].frames =
                           Append(@, Frame(cloned.context, tasks[r].endpoint))]
    /\ UNCHANGED <<appVars, routerVars, dispVars, crudVars, storeVars, fwdVars, exVars>>

\* A return that leaves the guards of the frame locked.
UnlockAll_leak(cells, guards) == cells

RECURSIVE UnlockAll(_, _)
UnlockAll(cells, guards) ==
    IF guards = {} THEN cells
    ELSE LET c == CHOOSE g \in guards : TRUE
         IN UnlockAll([cells EXCEPT ![c] = Mutex_unlock(@)], guards \ {c})

\* A handler returns or throws: its guards and its Context are dropped,
\* and the frame that awaits it, or serve, goes on with the result. A
\* gate returns what its next returned.
StepReturn(r) ==
    /\ tasks[r].status = "running"
    /\ AtIns(r).op \in {"return", "throw"}
    /\ heap' = Context_drop(UnlockAll(heap, Top(r).guards), Top(r).context)
    /\ tasks' = [tasks EXCEPT ![r] =
           [@ EXCEPT !.frames = SubSeq(@, 1, Len(@) - 1),
                     !.result = IF AtIns(r).op = "throw"
                                THEN ErrResult(Error_new(400, "bad request", TRUE))
                                ELSE IF Depth(r) = 1 THEN @ ELSE OkResult,
                     !.status = IF Depth(r) = 1 THEN "finishing" ELSE "running"]]
    /\ UNCHANGED <<appVars, routerVars, dispVars, crudVars, storeVars, fwdVars, exVars>>

\* The rest of HttpService::serve: context.resp_mut().await for the status
\* and the message of an error, then for std::mem::take. Each guard is
\* dropped at the end of its statement.
ServeFinish(r) ==
    /\ tasks[r].status = "finishing"
    /\ LET c == tasks[r].context.response
           locked == Mutex_lock(heap[c], <<r, 0>>)
           fin == serve_finish(tasks[r].result, heap[c].value)
       IN /\ locked.acquired
          /\ heap' = Context_drop([heap EXCEPT ![c].value = fin.resp], tasks[r].context)
          /\ tasks' = [tasks EXCEPT ![r].status = "done", ![r].outcome = fin.outcome]
    /\ UNCHANGED <<appVars, routerVars, dispVars, crudVars, storeVars, fwdVars, exVars>>

NextContext ==
    \/ \E r \in RequestIds, scenario \in Scenarios : Serve(r, scenario)
    \/ \E r \in RequestIds : StepLock(r)
    \/ \E r \in RequestIds : StepWrite(r)
    \/ \E r \in RequestIds : StepRead(r)
    \/ \E r \in RequestIds : StepUnlock(r)
    \/ \E r \in RequestIds : StepCallNext(r)
    \/ \E r \in RequestIds : StepReturn(r)
    \/ \E r \in RequestIds : ServeFinish(r)

SpecContext == Init /\ [][NextContext]_vars

\* What the handlers of a request wrote to a cell before event k of its
\* trace, in order, whichever handle each one wrote through.
RECURSIVE WrittenBefore(_, _, _)
WrittenBefore(trace, k, cell) ==
    IF k <= 1 THEN <<>>
    ELSE LET e == trace[k - 1]
         IN WrittenBefore(trace, k - 1, cell)
              \o (IF e.op = "write" /\ e.cell = cell THEN e.value ELSE <<>>)

\* C23: every handle of a request, the one of serve and the clone of each
\* layer, names the same cells; what a layer reads from the response or
\* the state is everything the layers of the request wrote to it before,
\* through any handle; and the response serve returns carries every
\* write of the handlers to the response, followed by the message of an
\* exposed error.
C23_ClonesShareCells ==
    \A r \in RequestIds :
        /\ \A d \in DOMAIN tasks[r].frames : tasks[r].frames[d].context = tasks[r].context
        /\ \A k \in DOMAIN tasks[r].trace :
               (tasks[r].trace[k].op = "read" /\ tasks[r].trace[k].cell \in {"response", "state"}) =>
                   tasks[r].trace[k].value =
                       WrittenBefore(tasks[r].trace, k, tasks[r].trace[k].cell)
        /\ tasks[r].status = "done" =>
               /\ tasks[r].outcome.ret = "Ok"
               /\ tasks[r].outcome.response[1].body =
                      WrittenBefore(tasks[r].trace, Len(tasks[r].trace) + 1, "response")
                        \o (IF tasks[r].result.ok THEN <<>> ELSE <<tasks[r].result.err.message>>)

\* The gate wrote, the endpoint read that and wrote, the gate read both
\* after next, and serve returned both.
C23_Witness ==
    /\ tasks[1].status = "done"
    /\ \E k \in DOMAIN tasks[1].trace :
           tasks[1].trace[k] = TEv(2, "read", "response", <<"1g">>)
    /\ \E k \in DOMAIN tasks[1].trace :
           tasks[1].trace[k] = TEv(1, "read", "response", <<"1g", "1e">>)
    /\ tasks[1].outcome.response[1].body = <<"1g", "1e">>

\* The cells of a Context.
CellsOf(context) == {context[name] : name \in ContextCells}

\* C25: a request that starts is given cells that did not exist before,
\* with Response::new() in the response and nothing in the store, and a
\* state the model was asked for exactly once; no two requests have a
\* cell in common; and a step of one request leaves every cell of every
\* other request's Context as it was, whatever the interleaving: the one
\* cell two requests both change is the one the model shares.
C25_RequestsIsolated ==
    [][\A r \in RequestIds :
          /\ (tasks[r].status = "idle" /\ tasks'[r].status # "idle") =>
                 /\ \A c \in CellsOf(tasks'[r].context) : c > Len(heap)
                 /\ heap'[tasks'[r].context.response].value = Response_new
                 /\ heap'[tasks'[r].context.store].value = EmptyMap
                 /\ heap'[tasks'[r].context.state].value = Model_new_state
                 /\ tasks'[r].new_state_calls = 1
          /\ tasks'[r].status # "idle" => tasks'[r].new_state_calls = 1
          /\ \A q \in RequestIds \ {r} :
                 /\ (tasks'[r].status # "idle" /\ tasks'[q].status # "idle") =>
                        CellsOf(tasks'[r].context) \cap CellsOf(tasks'[q].context) = {}
                 /\ (tasks'[r] # tasks[r] /\ tasks[q].status # "idle") =>
                        \A c \in CellsOf(tasks[q].context) : heap'[c] = heap[c]
    ]_vars

\* Two requests in flight at once, each in its endpoint: both wrote
\* their own state, and the second wrote what the model shares after the
\* first did.
C25_Witness ==
    /\ tasks[1].status = "running" /\ tasks[2].status = "running"
    /\ heap[tasks[1].context.state].value.own = <<"1e">>
    /\ heap[tasks[2].context.state].value.own = <<"2e">>
    /\ \E k \in DOMAIN tasks[1].trace : tasks[1].trace[k] = TEv(2, "write", "shared", <<"1e">>)
    /\ heap[SharedCell].value = <<"2e">>

\* The running layer of the request waits for a guard that a suspended
\* layer of the same request holds across its call of next.
HeldAcrossNext(r) ==
    /\ tasks[r].status = "running"
    /\ AtIns(r).op = "lock"
    /\ LET holder == heap[CellOf(r, AtIns(r).cell)].holder
       IN /\ holder # <<>>
          /\ holder[1] = r
          /\ holder[2] < Depth(r)
          /\ AtIns(r).cell \in ContextCells

\* C26: once a layer of a request waits for the guard of a cell of the
\* Context that a layer above it holds across next, the request waits
\* forever: it stays at that lock in every later state, serve never
\* returns for it and no response of it exists, while other requests go
\* on.
C26_HeldGuardDeadlocks ==
    [][\A r \in RequestIds :
          HeldAcrossNext(r) =>
              /\ tasks'[r] = tasks[r]
              /\ HeldAcrossNext(r)'
              /\ tasks'[r].status # "done"
              /\ tasks'[r].outcome = NoOutcome
    ]_vars

\* The first request waits in its endpoint for the response that its gate
\* holds, and the second request, started after it, is done.
C26_Witness ==
    /\ HeldAcrossNext(1)
    /\ Depth(1) = 2
    /\ tasks[1].frames[1].guards = {tasks[1].context.response}
    /\ tasks[1].outcome = NoOutcome
    /\ tasks[2].status = "done"
    /\ tasks[2].outcome.ret = "Ok"

\* C24 as stated: asking for a required variable that is not stored gives
\* an error with a 4xx status.
C24_Original ==
    \A k \in DOMAIN ops :
        (ops[k].op = "param" /\ ~ops[k].found) =>
            ops[k].err.status_code >= 400 /\ ops[k].err.status_code < 500

\* C24: asking for a required variable gives the value the router stored
\* under the name when there is one; when there is none, even if user data
\* is stored under the name, it gives the error 500, a server error whose
\* message names the variable and is not exposed.
C24_MissingParamIs500 ==
    \A k \in DOMAIN ops :
        ops[k].op = "param" =>
            LET prior == StoresBefore(k, "RouterSymbol", ops[k].name)
            IN IF prior = {}
               THEN /\ ~ops[k].found
                    /\ ops[k].err = Error_new(500, RequiredMessage(ops[k].name), FALSE)
                    /\ ops[k].err.kind = "ServerError"
                    /\ need_throw(ops[k].err)
               ELSE /\ ops[k].found
                    /\ ops[k].err = NoError
                    /\ ops[k].value = ops[CHOOSE h \in prior : \A g \in prior : g <= h].value

\* The route captured x and user data is stored under id; the handler
\* asks for x and for id.
C24_Witness ==
    /\ Len(ops) = 4
    /\ ops[1] = Op("store", "RouterSymbol", <<"x">>, <<"b">>, TRUE)
    /\ ops[2] = Op("store", "TestSymbol", <<"i", "d">>, <<"0">>, TRUE)
    /\ ops[3].op = "param" /\ ops[3].name = <<"x">> /\ ops[3].value = <<"b">>
    /\ ops[4].op = "param" /\ ops[4].name = <<"i", "d">> /\ ~ops[4].found
    /\ ops[4].err.status_code = 500

-----------------------------------------------------------------------------
(* Requests with forwarded headers                                          *)

PeerAddrs == {"127.0.0.1", "10.0.0.7"}

\* A request arrives with its headers from a peer.
Arrive(forwarded_host, named_host, forwarded_for, peer) ==
    /\ ~hreq.arrived
    /\ hreq' = [arrived |-> TRUE,
                headers |-> [name \in {n \in {"x-forwarded-host", "host", "x-forwarded-for"} :
                                           (CASE n = "x-forwarded-host" -> forwarded_host
                                              [] n = "host" -> named_host
                                              [] OTHER -> forwarded_for).set} |->
                                CASE name = "x-forwarded-host" -> forwarded_host
                                  [] name = "host" -> named_host
                                  [] OTHER -> forwarded_for],
                remote_addr |-> peer]
    /\ UNCHANGED <<appVars, routerVars, dispVars, crudVars, storeVars, ctxVars, answer, exVars>>

\* ctx.host().await
CallHost ==
    /\ hreq.arrived
    /\ LET got == host(hreq)
       IN answer' = [call |-> "host", ok |-> got.ok, text |-> got.text, ips |-> <<>>,
                     err |-> got.err]
    /\ UNCHANGED <<appVars, routerVars, dispVars, crudVars, storeVars, ctxVars, hreq, exVars>>

\* ctx.client_ip().await
CallClientIp ==
    /\ hreq.arrived
    /\ answer' = [call |-> "client_ip", ok |-> TRUE, text |-> <<client_ip(hreq)>>,
                  ips |-> <<>>, err |-> NoError]
    /\ UNCHANGED <<appVars, routerVars, dispVars, crudVars, storeVars, ctxVars, hreq, exVars>>

\* ctx.forwarded_ips().await
CallForwardedIps ==
    /\ hreq.arrived
    /\ answer' = [call |-> "forwarded_ips", ok |-> TRUE, text |-> <<>>,
                  ips |-> forwarded_ips(hreq), err |-> NoError]
    /\ UNCHANGED <<appVars, routerVars, dispVars, crudVars, storeVars, ctxVars, hreq, exVars>>

NextForward ==
    \/ /\ ~hreq.arrived
       /\ \E forwarded_host \in {Absent, Invalid} \cup {Text(v) : v \in HostValues},
             named_host \in {Absent, Invalid} \cup {Text(v) : v \in HostValues},
             forwarded_for \in {Absent, Invalid} \cup {Text(v) : v \in ForwardedForValues},
             peer \in PeerAddrs :
              Arrive(forwarded_host, named_host, forwarded_for, peer)
    \/ CallHost
    \/ CallClientIp
    \/ CallForwardedIps

SpecForward == Init /\ [][NextForward]_vars

\* C27: host returns the text of x-forwarded-host when the header is set
\* and is a string, whatever the host header is; otherwise the text of
\* host when that is set and is a string; otherwise it fails with the
\* exposed error 400 whose message says both are not set.
C27_HostPrecedence ==
    answer.call = "host" =>
        LET forwarded == Request_get(hreq, "x-forwarded-host")
            named == Request_get(hreq, "host")
        IN IF forwarded.set /\ forwarded.valid
           THEN answer.ok /\ answer.text = forwarded.text
           ELSE IF named.set /\ named.valid
           THEN answer.ok /\ answer.text = named.text
           ELSE /\ ~answer.ok
                /\ answer.err.status_code = 400
                /\ answer.err.expose
                /\ answer.err.message = HostMessage

\* tests::host: host google.com and x-forwarded-host github.com.
C27_Witness ==
    /\ answer.call = "host"
    /\ Request_get(hreq, "host") = Text(<<"google.com">>)
    /\ Request_get(hreq, "x-forwarded-host") = Text(<<"github.com">>)
    /\ answer.ok
    /\ answer.text = <<"github.com">>

\* The entries of a comma-separated value by their places: entry s starts
\* after the comma at place s (0 for the first) and ends before the next
\* comma or at the end of the value.
EntryStarts(value) == {0} \cup {i \in DOMAIN value : value[i] = ","}
EntryAt(value, s) ==
    LET later == {i \in DOMAIN value : i > s /\ value[i] = ","}
        stop == IF later = {} THEN Len(value) + 1
                ELSE CHOOSE i \in later : \A j \in later : i <= j
    IN SubSeq(value, s + 1, stop - 1)
\* An entry is an address when, spaces apart, it is one address token.
NotSpace(token) == token # " "
IsAddress(entry) ==
    /\ Len(SelectSeq(entry, NotSpace)) = 1
    /\ SelectSeq(entry, NotSpace)[1] \in IpTokens
\* The addresses among the entries that start after place s, in order.
RECURSIVE AddressesFrom(_, _)
AddressesFrom(value, s) ==
    IF s \notin EntryStarts(value) THEN
        IF s > Len(value) THEN <<>> ELSE AddressesFrom(value, s + 1)
    ELSE (IF IsAddress(EntryAt(value, s)) THEN SelectSeq(EntryAt(value, s), NotSpace) ELSE <<>>)
            \o AddressesFrom(value, s + 1)

\* C28: forwarded_ips returns the entries of x-forwarded-for that are
\* addresses, in their order, skipping the others, and the empty list when
\* the header is absent or is no string; client_ip returns the first of
\* these addresses when there is one and the ip of the peer otherwise.
C28_ForwardedIps ==
    LET header == Request_get(hreq, "x-forwarded-for")
        expected == IF header.set /\ header.valid THEN AddressesFrom(header.text, 0)
                    ELSE <<>>
    IN /\ answer.call = "forwarded_ips" => answer.ips = expected
       /\ answer.call = "client_ip" =>
              answer.text = IF expected = <<>> THEN <<hreq.remote_addr>> ELSE <<expected[1]>>

\* "unknown, 8.8.8.8": the entry that is no address is skipped and the
\* client ip is the first address, not the peer's.
C28_Witness ==
    /\ Request_get(hreq, "x-forwarded-for") = Text(<<"unknown", ",", "8.8.8.8">>)
    /\ hreq.remote_addr = "127.0.0.1"
    /\ answer.call = "client_ip"
    /\ answer.text = <<"8.8.8.8">>
    /\ forwarded_ips(hreq) = <<"8.8.8.8">>

\* C29: when the static index resolved the request, the gates and the
\* endpoint of the handler ran with a store in which no router variable
\* is found under any name, and asking for one as required fails; what
\* the gates stored is all the store holds.
C29_StaticInjectsNothing ==
    (phase = "done" /\ HasTable /\ Decoded.ok /\ StaticMatches # {}) =>
        /\ rlog[1].ev = "dispatch"
        /\ \A k \in DOMAIN rlog :
               /\ \A name \in VariableNames :
                      /\ ~try_param(rlog[k].store, name).found
                      /\ ~param(rlog[k].store, name).ok
               /\ \A key \in DOMAIN rlog[k].store : key[1] = "TestSymbol"
        /\ \A name \in VariableNames : ~try_param(store, name).found

\* GET /b with /:x registered before /b and a gate: the gate and the
\* endpoint of /b ran, the gate's data is in the store and x is not.
C29_Witness ==
    /\ phase = "done"
    /\ ~moved
    /\ router.middlewares = <<<<"gate", "router", 1>>>>
    /\ Len(router.endpoints) = 2
    /\ router.endpoints[1].path = <<"/", ":", "x">>
    /\ req = [method |-> "GET", path |-> <<"/", "b">>]
    /\ StaticMatches = {2}
    /\ HandlersRun = <<<<"gate", "router", 1>>, <<"endpoint", "router", 2>>>>
    /\ DOMAIN rlog[Len(rlog)].store = {<<"TestSymbol", <<"router", "1">>>>}
    /\ ~try_param(rlog[Len(rlog)].store, <<"x">>).found

----------------------------------------------------------------------------
(* One path under several methods                                          *)

\* The method list of Router::all, in the order of the macro call.
AllMethods ==
    <<"GET", "POST", "PUT", "PATCH", "OPTIONS", "DELETE", "HEAD", "TRACE", "CONNECT">>

\* Router::all
all(self, path, endpoint) == Router_end(self, AllMethods, path, endpoint)

\* The registrations of one normalized path: under GET, under DELETE with
\* another spelling of the path, and under both.
MethodRegistrations ==
    { [methods |-> <<"GET">>, path |-> <<"/", "b">>],
      [methods |-> <<"DELETE">>, path |-> <<"b", "/">>],
      [methods |-> <<"GET", "DELETE">>, path |-> <<"/", "b">>] }

\* The requests for that path: GET, DELETE, and POST, which only all
\* registers.
MethodRequests ==
    {[method |-> m, path |-> <<"/", "b">>] : m \in {"GET", "DELETE", "POST"}}

\* router.all(path, endpoint), taken as the only registration of a router:
\* its nine routes are not counted against the routes the other
\* registrations may make.
RouterAll(path) ==
    /\ ~built.called
    /\ Registered = 0
    /\ router' = all(router, path, <<"endpoint", "router", Len(router.endpoints) + 1>>)
    /\ UNCHANGED <<appVars, dispVars, child, moved, built, crudVars, storeVars, ctxVars, fwdVars, exVars>>

NextMethods ==
    \/ RouterGate
    \/ \E reg \in MethodRegistrations : RouterEnd(reg.methods, reg.path)
    \/ RouterAll(<<"/", "b">>)
    \/ Routes(RoutesPrefix)
    \/ Mount
    \/ \E r \in MethodRequests : Request(r.method, r.path)
    \/ StepJoin
    \/ StepEmpty
    \/ StepNext
    \/ StepLayer
    \/ StepResume
    \/ StepRoutes
    \/ StepRouterGate
    \/ StepRouterEnd
    \/ ServeEnd

SpecMethods == Init /\ [][NextMethods]_vars

\* The registration appended one route for each method of the list, in the
\* order of the list, all with the path as given and with one and the same
\* endpoint, and left the routes before it alone.
RegisteredUnder(methods, path) ==
    LET n == Len(router.endpoints)
        after == router'.endpoints
    IN /\ Len(after) = n + Len(methods)
       /\ SubSeq(after, 1, n) = router.endpoints
       /\ \A k \in DOMAIN methods :
              after[n + k] = [method |-> methods[k], path |-> path,
                              endpoint |-> after[n + 1].endpoint]

\* Routes::routes succeeds exactly when no two static routes of one method
\* share a normalized path.
BuildsPerMethod ==
    built.called => (built.ok <=> ~\E i, j \in DOMAIN BuiltRoutes : StaticConflict(i, j))

\* The request ran the handler of the one static route of its own method
\* that has its path, and no handler when its method has none, whatever is
\* registered at that path for other methods.
DispatchesOwnMethod ==
    (phase = "done" /\ HasTable /\ Decoded.ok) =>
        /\ StaticMatches # {} =>
               /\ Cardinality(StaticMatches) = 1
               /\ \A i \in StaticMatches :
                      /\ BuiltRoutes[i].method = req.method
                      /\ Chosen = BuiltRoutes[i].endpoint
                      /\ HandlersRun = Flatten(BuiltRoutes[i].endpoint)
        /\ StaticMatches = {} => (Chosen = <<>> /\ HandlersRun = <<>>)

\* C30: conflicts are per method. Building succeeds exactly when no single
\* method has two static routes of one normalized path, so the same
\* normalized path under two different methods builds; a request then runs
\* the handler registered for its own method and never one registered for
\* another; and a registration with a method list, or all, appends one
\* route per listed method, every one with the same endpoint.
C30_PerMethod ==
    /\ [](BuildsPerMethod /\ DispatchesOwnMethod)
    /\ [][/\ \A reg \in MethodRegistrations :
               RouterEnd(reg.methods, reg.path) => RegisteredUnder(reg.methods, reg.path)
          /\ RouterAll(<<"/", "b">>) =>
               /\ RegisteredUnder(AllMethods, <<"/", "b">>)
               /\ {AllMethods[k] : k \in DOMAIN AllMethods} = ALL_METHODS]_vars

\* GET /b and DELETE b/ registered one after the other: the table builds
\* and a DELETE request for /b runs the second endpoint.
C30_Witness ==
    /\ phase = "done"
    /\ built.ok
    /\ router.middlewares = <<>>
    /\ router.endpoints =
           <<[method |-> "GET", path |-> <<"/", "b">>,
              endpoint |-> <<"endpoint", "router", 1>>],
             [method |-> "DELETE", path |-> <<"b", "/">>,
              endpoint |-> <<"endpoint", "router", 2>>]>>
    /\ req = [method |-> "DELETE", path |-> <<"/", "b">>]
    /\ StaticMatches = {2}
    /\ HandlersRun = <<<<"endpoint", "router", 2>>>>
    /\ ServeResult.ok

----------------------------------------------------------------------------
(* Spellings of one path                                                   *)

\* crud_router resolved under /aser: routes registered with an empty path,
\* with slashes on both sides and with none, resolved under a prefix with
\* and without a leading slash.
PathRegistrations ==
    {[methods |-> <<"GET">>, path |-> p] :
        p \in {<<>>, <<"/", "b", "/">>, <<"b">>}}
PathPrefixes == { <<"/", "a">>, <<"a", "/">> }

\* Requests for /a and /a/b, spelled with and without a trailing slash and
\* with a doubled slash inside, and for the root.
PathRequests ==
    {[method |-> "GET", path |-> p] :
        p \in { <<"/", "a">>,
                <<"/", "a", "/">>,
                <<"/", "a", "/", "b", "/">>,
                <<"/", "a", "/", "/", "b">>,
                <<"/">> }}

NextPaths ==
    \/ \E reg \in PathRegistrations : RouterEnd(reg.methods, reg.path)
    \/ \E prefix \in PathPrefixes : Routes(prefix)
    \/ Mount
    \/ \E r \in PathRequests : Request(r.method, r.path)
    \/ StepJoin
    \/ StepEmpty
    \/ StepNext
    \/ StepLayer
    \/ StepResume
    \/ StepRoutes
    \/ StepRouterEnd
    \/ ServeEnd

SpecPaths == Init /\ [][NextPaths]_vars

\* Exactly one leading slash and no trailing slash, except for the root.
Normalized(path) ==
    /\ path # <<>>
    /\ path[1] = "/"
    /\ Len(path) > 1 => (path[2] # "/" /\ path[Len(path)] # "/")

\* The static routes of the request's method whose path, under the prefix,
\* is the request path up to the slashes at both ends.
SpelledAlike ==
    {i \in DOMAIN router.endpoints :
        /\ router.endpoints[i].method = req.method
        /\ Path_parse(BuiltRoutes[i].path).kind = "Static"
        /\ join_trimmed(<<built.prefix, router.endpoints[i].path>>) = trim_slashes(Decoded.text)}

\* C31: paths are normalized the same way at registration and at dispatch.
\* Every path a route is inserted under and every path a request is looked
\* up by has exactly one leading slash and no trailing slash (the root
\* excepted), normalizing it again returns it unchanged, and a request
\* runs the static route of its method whose path under the prefix differs
\* from the request path only in the slashes at both ends: a route
\* registered with an empty path under /a answers /a and /a/.
C31_SameNormalization ==
    /\ built.called =>
           \A i \in DOMAIN BuiltRoutes :
               /\ Normalized(BuiltRoutes[i].path)
               /\ Path_parse(BuiltRoutes[i].path).path = BuiltRoutes[i].path
               /\ standardize_path(BuiltRoutes[i].path) = BuiltRoutes[i].path
    /\ (phase = "done" /\ HasTable /\ Decoded.ok) =>
           /\ Normalized(RequestPath)
           /\ standardize_path(RequestPath) = RequestPath
           /\ DOMAIN Table.static_route =
                  {BuiltRoutes[i].path : i \in {k \in DOMAIN BuiltRoutes :
                                                  BuiltRoutes[k].method = req.method}}
           /\ \A i \in SpelledAlike : HandlersRun = Flatten(BuiltRoutes[i].endpoint)
           /\ SpelledAlike = {} => HandlersRun = <<>>

\* crud_router's post: a route with an empty path, resolved under /a,
\* answers the request for /a/.
C31_Witness ==
    /\ phase = "done"
    /\ built.ok
    /\ built.prefix = <<"/", "a">>
    /\ router.endpoints = <<[method |-> "GET", path |-> <<>>,
                              endpoint |-> <<"endpoint", "router", 1>>]>>
    /\ req = [method |-> "GET", path |-> <<"/", "a", "/">>]
    /\ SpelledAlike = {1}
    /\ HandlersRun = <<<<"endpoint", "router", 1>>>>
    /\ ServeResult.ok

----------------------------------------------------------------------------
(* The same request twice                                                  *)

\* The error of an endpoint that fails: the handlers of crud_router throw
\* NOT_FOUND for an id that is not there.
HandlerError == Error_new(404, <<"id not found">>, TRUE)

\* An endpoint of a router that returns an error.
StepRouterEndThrows ==
    /\ phase = "running"
    /\ ctl[1] = "run"
    /\ ctl[2][1] = "endpoint"
    /\ rlog' = Append(rlog, REv("endpoint", ctl[2], <<>>, store))
    /\ ctl' = <<"ret", ErrResult(HandlerError)>>
    /\ UNCHANGED <<app, beh, phase, stack, log, resp, outcome, routerVars, req, store, crudVars, storeVars, ctxVars, fwdVars, exVars>>

\* HttpService::serve for a second request of the same method and uri
\* path: a new Context, the same root middleware.
RequestAgain ==
    /\ phase = "done"
    /\ beh = MountedBehaviours
    /\ Count("serve", 0) = 1
    /\ phase' = "running"
    /\ resp' = Response_new
    /\ ctl' = <<"run", app, <<"last">>>>
    /\ store' = EmptyMap
    /\ UNCHANGED <<app, beh, stack, log, outcome, routerVars, req, rlog, crudVars, storeVars, ctxVars, fwdVars, exVars>>

NextAgain ==
    \/ RouterGate
    \/ \E reg \in DispatchRegistrations : RouterEnd(reg.methods, reg.path)
    \/ Routes(RoutesPrefix)
    \/ Mount
    \/ \E r \in Requests : Request(r.method, r.path)
    \/ RequestAgain
    \/ StepJoin
    \/ StepEmpty
    \/ StepNext
    \/ StepLayer
    \/ StepResume
    \/ StepRoutes
    \/ StepRouterGate
    \/ StepRouterEnd
    \/ StepRouterEndThrows
    \/ ServeEnd

SpecAgain == Init /\ [][NextAgain]_vars

\* The resolutions of the router so far, in order: the handler chosen, or
\* <<>> for an error.
IsResolution(e) == e.who = <<"routes">>
Resolutions == SelectSeq(rlog, IsResolution)

\* What the table as it is now resolves the request to.
ResolvedNow ==
    LET decision == RouteEndpoint_handle(built.value[1], req)
    IN [ev |-> IF decision.kind = "run" THEN "dispatch" ELSE "throw",
        handler |-> decision.handler]

\* C32: the dispatch table is read-only after build. No step of a request,
\* whether it ends in a match, in 404, 405 or 400, or in an error of the
\* handler, changes the table of any method, so the second dispatch of a
\* request resolves as the first did and as the table resolves it at any
\* later moment.
C32_TableReadOnly ==
    /\ [][built.called => built' = built]_vars
    /\ [](\A k \in DOMAIN Resolutions :
              /\ Resolutions[k].ev = Resolutions[1].ev
              /\ Resolutions[k].handler = Resolutions[1].handler
              /\ Resolutions[k].ev = ResolvedNow.ev
              /\ Resolutions[k].handler = ResolvedNow.handler)

\* GET /b on the routes /:x and /:y, twice: the endpoint of /:x failed the
\* first time and was chosen again the second time.
C32_Witness ==
    /\ phase = "done"
    /\ Count("serve", 0) = 2
    /\ Len(router.endpoints) = 2
    /\ router.endpoints[1].path = <<"/", ":", "x">>
    /\ router.endpoints[2].path = <<"/", ":", "y">>
    /\ req = [method |-> "GET", path |-> <<"/", "b">>]
    /\ ~ServeResult.ok
    /\ ServeResult.err = HandlerError
    /\ Len(Resolutions) = 2
    /\ Resolutions[1].handler = BuiltRoutes[1].endpoint
    /\ Resolutions[2].handler = BuiltRoutes[1].endpoint

----------------------------------------------------------------------------
(* The errors of the router at the shell                                   *)

\* The router resolved the request to an error.
RouterThrew == \E k \in DOMAIN rlog : rlog[k].ev = "throw"

\* The status the router answers the request with when it runs no handler.
RoutingStatus ==
    IF ~HasTable THEN 405
    ELSE IF ~Decoded.ok THEN 400
    ELSE 404

\* C33: the errors of the router are client errors. When the router
\* resolves a request to an error and nothing above it catches the error,
\* the error is 404 (no match), 405 (no table for the method) or 400 (a
\* path that is not UTF-8), serve returns Ok and the response it returns
\* carries that status: the error is not thrown to the transport.
C33_RoutingErrorsAnswered ==
    (phase = "done" /\ RouterThrew) =>
        /\ ~ServeResult.ok
        /\ ServeResult.err.status_code = RoutingStatus
        /\ ServeResult.err.kind = "ClientError"
        /\ ~need_throw(ServeResult.err)
        /\ outcome.ret = "Ok"
        /\ Len(outcome.response) = 1
        /\ outcome.response[1].status = RoutingStatus
        /\ HandlersRun = <<>>

\* PURGE /b on a router with a GET route for /b: 405 in the response that
\* serve returns.
C33_Witness ==
    /\ phase = "done"
    /\ RouterThrew
    /\ req = [method |-> "PURGE", path |-> <<"/", "b">>]
    /\ Len(router.endpoints) = 1
    /\ router.endpoints[1].path = <<"/", "b">>
    /\ outcome.ret = "Ok"
    /\ outcome.response[1].status = 405

----------------------------------------------------------------------------
(* The chain of App::gate against the fold of join_all                     *)

\* The middlewares of the App in the order they were added, composed as
\* Router::on composes: join_all(middlewares).
RightFold == join_all([i \in 1..Len(beh) |-> <<"user", i>>])

\* A second request, served by the right fold of the same middlewares in
\* place of the chain App::gate built.
ServeRightFold ==
    /\ phase = "done"
    /\ Count("serve", 0) = 1
    /\ phase' = "running"
    /\ resp' = Response_new
    /\ ctl' = <<"run", RightFold, <<"last">>>>
    /\ UNCHANGED <<app, beh, stack, log, outcome, routerVars, dispVars, crudVars, storeVars, ctxVars, fwdVars, exVars>>

NextFolds ==
    \/ \E b \in GateBehaviours : Gate(b)
    \/ \E b \in EndBehaviours : End(b)
    \/ ServeBegin
    \/ ServeRightFold
    \/ StepJoin
    \/ StepEmpty
    \/ StepNext
    \/ StepLast
    \/ StepLayer
    \/ StepResume
    \/ ServeEnd

SpecFolds == Init /\ [][NextFolds]_vars

\* Where the first request ends in the log, and what the middlewares did
\* (code before next, call of next, code after next, return, with the
\* results) during the first and during the second request.
FirstServe == CHOOSE k \in Idx("serve", 0) : \A m \in Idx("serve", 0) : k <= m
IsLayerEvent(e) == e.layer > 0
LeftRun == SelectSeq(SubSeq(log, 1, FirstServe), IsLayerEvent)
RightRun == SelectSeq(SubSeq(log, FirstServe + 1, Len(log)), IsLayerEvent)

\* C34: composition is associative. For every list of middlewares, the
\* chain App::gate builds by left-nested joins from the empty composition
\* and the right fold join_all of the same list run the same middlewares
\* in the same order with the same results, return the same result to
\* serve, and serve returns the same outcome with the same response.
C34_Associative ==
    /\ []((phase = "done" /\ Count("serve", 0) = 2) =>
             /\ LeftRun = RightRun
             /\ log[FirstServe].res = log[Len(log)].res)
    /\ [][(phase = "running" /\ phase' = "done" /\ Count("serve", 0) = 1) =>
             outcome' = outcome]_vars

\* Three middlewares: the first passes, the second catches, the third
\* fails; both compositions ran all three and serve returned Ok twice.
C34_Witness ==
    /\ phase = "done"
    /\ Count("serve", 0) = 2
    /\ Len(beh) = 3
    /\ beh[1].k = "pass"
    /\ beh[2].k = "catch"
    /\ beh[3].k = "end" /\ ~beh[3].r.ok
    /\ app = join(join(join(<<"empty">>, <<"user", 1>>), <<"user", 2>>), <<"user", 3>>)
    /\ RightFold = join(<<"user", 1>>, join(<<"user", 2>>, join(<<"user", 3>>, <<"empty">>)))
    /\ Len(LeftRun) = 10
    /\ LeftRun = RightRun
    /\ log[Len(log)].res = OkResult

----------------------------------------------------------------------------
(* The tables of the standard methods                                      *)

\* C35: a built RouteEndpoint has a table for each of the nine standard
\* methods, whatever was registered, the router without routes included.
\* Hence a request with a standard method never ends with the 405 of the
\* router, and one whose path (which decodes) no route of its method
\* answers ends with 404.
C35_StandardMethodsHaveTables ==
    /\ (built.called /\ built.ok) =>
           /\ ALL_METHODS \subseteq DOMAIN built.value[1]
           /\ Cardinality(ALL_METHODS) = 9
    /\ (phase = "done" /\ req.method \in ALL_METHODS) =>
           /\ HasTable
           /\ ~EndedWith(405)
           /\ FinalResponse.status # 405
           /\ (Decoded.ok /\ NoMatch) => EndedWith(404)

\* DELETE /b on a router whose only route is GET /:x: DELETE has a table,
\* an empty one, and the request ends with 404.
C35_Witness ==
    /\ phase = "done"
    /\ req = [method |-> "DELETE", path |-> <<"/", "b">>]
    /\ ~moved
    /\ Len(router.endpoints) = 1
    /\ router.endpoints[1].method = "GET"
    /\ router.endpoints[1].path = <<"/", ":", "x">>
    /\ built.value[1]["DELETE"] = RouteTable_new
    /\ NoMatch
    /\ EndedWith(404)

----------------------------------------------------------------------------
(* The gates of a router on a request without route                        *)

\* The gates that ran, and the gates and endpoint of the handler chosen.
GatesRun == {rlog[k].who : k \in {m \in DOMAIN rlog : rlog[m].ev = "gate"}}
ChosenMembers == {Flatten(Chosen)[k] : k \in DOMAIN Flatten(Chosen)}

\* C36: the gates of a router run only for a request that resolves to one
\* of its routes. Once the router has resolved a request to 404, 405 or
\* 400, no gate of the router or of an included router has run or runs,
\* and nothing a gate stores is in the Context; a gate that runs is one of
\* the handler the router chose.
C36_GatesOnlyOnMatch ==
    /\ RouterThrew =>
           /\ GatesRun = {}
           /\ HandlersRun = <<>>
           /\ \A key \in DOMAIN store : key[1] # "TestSymbol"
           /\ ~(ctl[1] = "run" /\ ctl[2][1] \in {"gate", "endpoint"})
    /\ GatesRun # {} => (Chosen # <<>> /\ GatesRun \subseteq ChosenMembers)

\* A router with two gates and the route /b, a request for /c/c: 404 and
\* no gate ran.
C36_Witness ==
    /\ phase = "done"
    /\ RouterThrew
    /\ ~moved
    /\ Len(router.middlewares) = 2
    /\ Len(router.endpoints) = 1
    /\ router.endpoints[1].path = <<"/", "b">>
    /\ req = [method |-> "GET", path |-> <<"/", "c", "/", "c">>]
    /\ GatesRun = {}
    /\ EndedWith(404)

----------------------------------------------------------------------------
(* Including a router, with and without a list of methods                  *)

\* The routes of the routers: standard methods, one registration under
\* two of them, and the extension method PURGE.
IncludeRegistrations ==
    { [methods |-> <<"GET">>, path |-> <<"/", "b">>],
      [methods |-> <<"DELETE">>, path |-> <<"/", "b">>],
      [methods |-> <<"GET", "DELETE">>, path |-> <<"/", ":", "x">>],
      [methods |-> <<"PURGE">>, path |-> <<"/", "b">>] }

\* The method lists given to include_methods.
MethodFilters == { {"GET"}, {"DELETE", "PURGE"} }

\* router.include_methods(prefix, child, methods)
IncludeMethods(prefix, methods) ==
    /\ ~built.called
    /\ ~moved
    /\ router' = Router_include_methods(router, prefix, child, methods)
    /\ moved' = TRUE
    /\ UNCHANGED <<appVars, dispVars, child, built, crudVars, storeVars, ctxVars, fwdVars, exVars>>

NextInclude ==
    \/ \E reg \in IncludeRegistrations : RouterEnd(reg.methods, reg.path)
    \/ ChildGate
    \/ \E reg \in IncludeRegistrations : ChildEnd(reg.methods, reg.path)
    \/ \E methods \in MethodFilters : IncludeMethods(IncludePrefix, methods)
    \/ Include(IncludePrefix)
    \/ Routes(RoutesPrefix)

SpecInclude == Init /\ [][NextInclude]_vars

RECURSIVE NthOf(_, _)
\* The n-th smallest number of a set of numbers.
NthOf(set, n) ==
    LET least == CHOOSE k \in set : \A m \in set : k <= m
    IN IF n = 1 THEN least ELSE NthOf(set \ {least}, n - 1)

\* The step appended to the parent the resolved routes of the child whose
\* method is one of these, all of them, in the child's order, and nothing
\* else.
KeptExactly(methods) ==
    LET resolved == Router_on(child, IncludePrefix)
        kept == {k \in DOMAIN resolved : resolved[k].method \in methods}
        n == Len(router.endpoints)
    IN /\ Len(router'.endpoints) = n + Cardinality(kept)
       /\ SubSeq(router'.endpoints, 1, n) = router.endpoints
       /\ \A j \in 1..Cardinality(kept) :
              router'.endpoints[n + j] = resolved[NthOf(kept, j)]

\* The methods the routes of the child are registered under.
ChildMethods == {child.endpoints[k].method : k \in DOMAIN child.endpoints}

\* C37: include_methods registers in the parent exactly the routes of the
\* child whose method is in the list, in the child's order, and drops the
\* others; include keeps every route of the child.
C37_IncludeKeeps ==
    [][/\ \A methods \in MethodFilters :
              IncludeMethods(IncludePrefix, methods) => KeptExactly(methods)
       /\ Include(IncludePrefix) => KeptExactly(ChildMethods)]_vars

----------------------------------------------------------------------------
(* The guards of the shell and of the router                               *)

\* RouteEndpoint::handle and RouteTable::end on a match of a dynamic
\* route: ctx.method().await, ctx.uri().await, ctx.store(..).await, each
\* guard dropped at the end of its statement, then handler.end(ctx).
RouterMatch ==
    <<Ins("lock", "request"), Ins("read", "request"), Ins("unlock", "request"),
      Ins("lock", "request"), Ins("read", "request"), Ins("unlock", "request"),
      Ins("lock", "store"), Ins("write", "store"), Ins("unlock", "store"),
      Ins("next", "")>>
\* The router on a request without route: the reads, then throw!.
RouterThrows ==
    <<Ins("lock", "request"), Ins("read", "request"), Ins("unlock", "request"),
      Ins("lock", "request"), Ins("read", "request"), Ins("unlock", "request"),
      Ins("throw", "")>>
\* An endpoint that throws while it holds the guard of the response.
EndThrowLocked ==
    <<Ins("lock", "response"), Ins("write", "response"), Ins("throw", "")>>

\* Chains that drop every guard before next: the router in front of an
\* endpoint that succeeds or throws, and the router without route.
GuardScenarios ==
    { [gate |-> RouterMatch, endpoint |-> EndWrite],
      [gate |-> RouterMatch, endpoint |-> EndThrowLocked],
      [gate |-> RouterThrows, endpoint |-> EndWrite] }

NextGuards ==
    \/ \E r \in RequestIds, scenario \in GuardScenarios : Serve(r, scenario)
    \/ \E r \in RequestIds : StepLock(r)
    \/ \E r \in RequestIds : StepWrite(r)
    \/ \E r \in RequestIds : StepRead(r)
    \/ \E r \in RequestIds : StepUnlock(r)
    \/ \E r \in RequestIds : StepCallNext(r)
    \/ \E r \in RequestIds : StepReturn(r)
    \/ \E r \in RequestIds : ServeFinish(r)

\* A step of a request that is served.
TaskStep ==
    \/ \E r \in RequestIds : StepLock(r)
    \/ \E r \in RequestIds : StepWrite(r)
    \/ \E r \in RequestIds : StepRead(r)
    \/ \E r \in RequestIds : StepUnlock(r)
    \/ \E r \in RequestIds : StepCallNext(r)
    \/ \E r \in RequestIds : StepReturn(r)
    \/ \E r \in RequestIds : ServeFinish(r)

\* The executor goes on as long as one of its tasks can take a step.
SpecGuards == Init /\ [][NextGuards]_vars /\ WF_vars(TaskStep)

\* A request is being served.
InProgress(r) == tasks[r].status \in {"running", "finishing"}

\* The frame of the router: the first frame of a request whose chain
\* starts with the router.
RouterFrame(r) ==
    /\ tasks[r].frames # <<>>
    /\ tasks[r].frames[1].script \in {RouterMatch, RouterThrows}

\* C38: the framework holds no guard while a handler runs. The shell
\* holds none from the call of the root middleware to its return, the
\* router none while the handler it chose runs; when the root middleware
\* has returned, with Ok or with an error, the guard of the response is
\* free for the shell; and every request of a chain whose layers drop
\* their guards before next completes: again and again no request is
\* being served, whatever the requests in flight.
C38_FrameworkHoldsNoGuard ==
    /\ [](\A r \in RequestIds :
              /\ \A c \in DOMAIN heap : heap[c].holder # <<>> => heap[c].holder[2] >= 1
              /\ (RouterFrame(r) /\ Depth(r) = 2) => tasks[r].frames[1].guards = {}
              /\ tasks[r].status = "finishing" =>
                     heap[tasks[r].context.response].holder = <<>>)
    /\ []<>(\A r \in RequestIds : ~InProgress(r))

\* The router matched, the endpoint threw while it held the guard of the
\* response, and serve finished with the error's status in the response.
C38_Witness ==
    /\ tasks[1].status = "done"
    /\ ~tasks[1].result.ok
    /\ tasks[1].outcome.ret = "Ok"
    /\ tasks[1].outcome.response[1].status = 400
    /\ \E k \in DOMAIN tasks[1].trace :
           /\ tasks[1].trace[k].depth = 1
           /\ tasks[1].trace[k].op = "write"
           /\ tasks[1].trace[k].cell = "store"
    /\ \E k \in DOMAIN tasks[1].trace :
           /\ tasks[1].trace[k].depth = 2
           /\ tasks[1].trace[k].op = "write"
           /\ tasks[1].trace[k].cell = "response"

----------------------------------------------------------------------------
(* Concurrent requests to the example                                      *)

\* POST /user: create_user, served in one piece (one write guard).
ExampleCreate(user) ==
    /\ dbTable.next <= MaxId
    /\ Len(created) <= MaxId + MaxInFlight
    /\ LET made == Database_create(dbTable, user)
       IN /\ dbTable' = made.slab
          /\ created' = Append(created, made.key)
    /\ UNCHANGED <<appVars, routerVars, dispVars, crudVars, storeVars, ctxVars, fwdVars, calls>>

\* DELETE /user/:id, up to the end of the if of Database::delete: the
\* read guard is taken, contains is evaluated and the guard is dropped;
\* for an absent id the request ends with 404.
DeleteCheck(r, id) ==
    /\ calls[r].pc = "idle"
    /\ calls' = [calls EXCEPT ![r] =
           IF Database_delete_check(dbTable, id)
           THEN [pc |-> "checked", id |-> id, status |-> 0, user |-> NoUser]
           ELSE [pc |-> "done", id |-> id, status |-> 404, user |-> NoUser]]
    /\ UNCHANGED <<appVars, routerVars, dispVars, crudVars, storeVars, ctxVars, fwdVars, dbTable, created>>

\* The rest of Database::delete: the write guard is taken and remove(id)
\* runs, whatever happened to the table since the check.
DeleteRemove(r) ==
    /\ calls[r].pc = "checked"
    /\ LET res == Database_delete_remove(dbTable, calls[r].id)
       IN /\ dbTable' = res.slab
          /\ calls' = [calls EXCEPT ![r] =
                 [pc |-> IF res.panic THEN "panicked" ELSE "done", id |-> calls[r].id,
                  status |-> res.status, user |-> res.user]]
    /\ UNCHANGED <<appVars, routerVars, dispVars, crudVars, storeVars, ctxVars, fwdVars, created>>

NextExample ==
    \/ \E user \in Users : ExampleCreate(user)
    \/ \E r \in RequestIds, id \in CrudIds : DeleteCheck(r, id)
    \/ \E r \in RequestIds : DeleteRemove(r)

SpecExample == Init /\ [][NextExample]_vars

\* How often create returned the id, and how many deletes of the id
\* returned a user.
CreatedTimes(id) == Cardinality({k \in DOMAIN created : created[k] = id})
DeletedTimes(id) ==
    Cardinality({r \in RequestIds :
                    calls[r].pc = "done" /\ calls[r].id = id /\ calls[r].status = 200})

\* C39: Database::delete is atomic under concurrent requests. remove never
\* runs for an id that is not in the table, and of the DELETE requests for
\* an id no more return a user than users were created under it: of two
\* for the same user, one returns it and the other ends with 404.
C39_DeleteAtomic ==
    /\ \A r \in RequestIds : calls[r].pc # "panicked"
    /\ \A id \in CrudIds : DeletedTimes(id) <= CreatedTimes(id)
====
